---- MODULE Spec2Model ----
(***************************************************************************)
(* A model of the FIRRTL LowerTypes pass                                   *)
(* (lib/Dialect/FIRRTL/Transforms/LowerTypes.cpp).                         *)
(*                                                                         *)
(* The module models                                                       *)
(*   - FIRRTL types (ground, bundle, vector), field IDs and peelType;      *)
(*   - a module's IR: operations with operands, result types, names, inner *)
(*     symbols and annotations, kept in blocks; block arguments (ports);   *)
(*   - the TypeLoweringVisitor: the reverse walk of lowerBlock and one     *)
(*     visitor per operation kind, then the port lowering;                 *)
(*   - the pass driver runOnOperation: one task per module, the lock       *)
(*     around the merge of the rename maps, and the hierarchical path      *)
(*     update.                                                             *)
(***************************************************************************)
EXTENDS Integers, Sequences, FiniteSets, TLC

(***************************************************************************)
(* Bounds of the model.                                                    *)
(***************************************************************************)
\* Largest vector length among the generated input types.
MaxVecLen == 3
\* Largest width of a dynamic index among the generated inputs.
MaxIdxWidth == 2

(***************************************************************************)
(* Generic helpers.                                                        *)
(***************************************************************************)
Range(s) == {s[i] : i \in DOMAIN s}

Last(s) == s[Len(s)]

RECURSIVE SumSeq(_)
SumSeq(s) == IF s = <<>> THEN 0 ELSE Head(s) + SumSeq(Tail(s))

RECURSIVE Pow2(_)
Pow2(n) == IF n = 0 THEN 1 ELSE 2 * Pow2(n - 1)

\* std::to_string on the small indices the model uses.
IntStr(i) == ToString(i)

Restrict(f, S) == [x \in S |-> f[x]]

(***************************************************************************)
(* FIRRTL types.                                                           *)
(***************************************************************************)
UIntT(w) == [k |-> "uint", w |-> w]
SIntT(w) == [k |-> "sint", w |-> w]
ClockT == [k |-> "clock", w |-> 1]
AnalogT(w) == [k |-> "analog", w |-> w]
Elt(name, flip, type) == [name |-> name, flip |-> flip, type |-> type]
BundleT(elts) == [k |-> "bundle", elts |-> elts]
VectorT(elt, n) == [k |-> "vector", elt |-> elt, n |-> n]

IsBundle(t) == t.k = "bundle"
IsVector(t) == t.k = "vector"
IsAggregate(t) == IsBundle(t) \/ IsVector(t)
isGround(t) == ~IsAggregate(t)

getNumElements(t) == IF IsBundle(t) THEN Len(t.elts) ELSE IF IsVector(t) THEN t.n ELSE 0

\* The type of the index-th immediate element (0-based).
getElementType(t, index) == IF IsBundle(t) THEN t.elts[index + 1].type ELSE t.elt

RECURSIVE getMaxFieldID(_)
getMaxFieldID(t) ==
    IF IsBundle(t)
      THEN SumSeq([i \in 1..Len(t.elts) |-> getMaxFieldID(t.elts[i].type) + 1])
      ELSE IF IsVector(t) THEN t.n * (getMaxFieldID(t.elt) + 1) ELSE 0

\* The field ID of the index-th immediate element (0-based).
getFieldID(t, index) ==
    IF IsBundle(t)
      THEN 1 + SumSeq([i \in 1..index |-> getMaxFieldID(t.elts[i].type) + 1])
      ELSE 1 + index * (getMaxFieldID(t.elt) + 1)

RECURSIVE getBitWidth(_)
getBitWidth(t) ==
    IF IsBundle(t)
      THEN SumSeq([i \in 1..Len(t.elts) |-> getBitWidth(t.elts[i].type)])
      ELSE IF IsVector(t) THEN t.n * getBitWidth(t.elt) ELSE t.w

RECURSIVE isPassive(_)
isPassive(t) ==
    IF IsBundle(t)
      THEN \A i \in 1..Len(t.elts) : ~t.elts[i].flip /\ isPassive(t.elts[i].type)
      ELSE IF IsVector(t) THEN isPassive(t.elt) ELSE TRUE

RECURSIVE containsAnalog(_)
containsAnalog(t) ==
    IF IsBundle(t)
      THEN \E i \in 1..Len(t.elts) : containsAnalog(t.elts[i].type)
      ELSE IF IsVector(t) THEN containsAnalog(t.elt) ELSE t.k = "analog"

\* A zero-width test that does not count an aggregate without elements.
noElementIsWide(t) == FALSE

RECURSIVE hasZeroBitWidth(_)
hasZeroBitWidth(t) ==
    IF IsBundle(t)
      THEN IF \E i \in 1..Len(t.elts) : hasZeroBitWidth(t.elts[i].type)
             THEN TRUE
             ELSE Len(t.elts) = 0
      ELSE IF IsVector(t)
             THEN IF t.n = 0 THEN TRUE ELSE hasZeroBitWidth(t.elt)
             ELSE t.w = 0

isPreservableAggregateType(t) ==
    isPassive(t) /\ ~containsAnalog(t) /\ ~hasZeroBitWidth(t)

FlatBundleFieldEntry(type, index, fieldID, suffix, isOutput) ==
    [type |-> type, index |-> index, fieldID |-> fieldID, suffix |-> suffix,
     isOutput |-> isOutput]

\* One layer of a bundle: declaration order, suffix "_" + name.
peelBundle(t) ==
    [i \in 1..Len(t.elts) |->
        FlatBundleFieldEntry(t.elts[i].type, i - 1, getFieldID(t, i - 1),
                             "_" \o t.elts[i].name, t.elts[i].flip)]

\* One layer of a vector: ascending index, suffix "_" + index, never flipped.
peelVector(t) ==
    [i \in 1..t.n |->
        FlatBundleFieldEntry(t.elt, i - 1, getFieldID(t, i - 1),
                             "_" \o IntStr(i - 1), FALSE)]

\* peelType that peels no vector.
peelTypeBundlesOnly(t, allowedToPreserveAggregate) ==
    IF allowedToPreserveAggregate /\ isPreservableAggregateType(t)
      THEN [ok |-> FALSE, fields |-> <<>>]
      ELSE IF IsBundle(t) THEN [ok |-> TRUE, fields |-> peelBundle(t)]
      ELSE [ok |-> FALSE, fields |-> <<>>]

\* peelType: [ok |-> the bool returned, fields |-> the fields appended].
peelType(t, allowedToPreserveAggregate) ==
    IF allowedToPreserveAggregate /\ isPreservableAggregateType(t)
      THEN [ok |-> FALSE, fields |-> <<>>]
      ELSE IF IsBundle(t) THEN [ok |-> TRUE, fields |-> peelBundle(t)]
      ELSE IF IsVector(t) THEN [ok |-> TRUE, fields |-> peelVector(t)]
      ELSE [ok |-> FALSE, fields |-> <<>>]

(***************************************************************************)
(* Annotations.  fieldID is the "circt.fieldID" member, sfid the "fieldID" *)
(* member, nonlocal the "circt.nonlocal" member; -1 and "" stand for an    *)
(* absent member.                                                          *)
(***************************************************************************)
Anno(class, fieldID, nonlocal) ==
    [class |-> class, fieldID |-> fieldID, sfid |-> -1, nonlocal |-> nonlocal]

DontTouchClass == "firrtl.transforms.DontTouchAnnotation"
SignalDriverClass == "sifive.enterprise.grandcentral.SignalDriverAnnotation"

\* isAnnotationSensitiveToFieldID for an empty allow-list.
noAnnotationIsSensitive(anno) == FALSE

isAnnotationSensitiveToFieldID(anno) == anno.class = SignalDriverClass

updateAnnotationFieldID(anno, fieldID) ==
    IF fieldID = 0 THEN anno
    ELSE IF ~isAnnotationSensitiveToFieldID(anno) THEN anno
    ELSE [anno EXCEPT !.sfid = IF anno.sfid # -1 THEN fieldID + anno.sfid ELSE fieldID]

\* The iteration without the test of the range of the field.
filterAnnotationNoRange(st, opAttr, field) ==
    LET annotation == [opAttr EXCEPT !.fieldID = -1]
        fieldID == opAttr.fieldID
    IN  IF opAttr.fieldID = -1
          THEN [st EXCEPT !.retval = Append(@, updateAnnotationFieldID(opAttr, field.fieldID))]
        ELSE IF fieldID = 0
          THEN [st EXCEPT !.retval = Append(@, annotation)]
        ELSE IF fieldID - field.fieldID # 0
          THEN [st EXCEPT !.retval =
                   Append(@, [annotation EXCEPT !.fieldID = fieldID - field.fieldID])]
        ELSE IF opAttr.class = DontTouchClass
          THEN [st EXCEPT !.needsSym = TRUE]
        ELSE [retval |-> Append(st.retval, annotation),
              needsSym |-> isGround(field.type) /\ annotation.nonlocal # ""]

\* One iteration of the loop of filterAnnotations over the annotation opAttr;
\* st = [retval, needsSym].
filterAnnotation(st, opAttr, field) ==
    LET annotation == [opAttr EXCEPT !.fieldID = -1]
        fieldID == opAttr.fieldID
    IN  IF opAttr.fieldID = -1
          THEN [st EXCEPT !.retval = Append(@, updateAnnotationFieldID(opAttr, field.fieldID))]
        ELSE IF fieldID # 0 /\ ~(fieldID >= field.fieldID
                                 /\ fieldID <= field.fieldID + getMaxFieldID(field.type))
          THEN st
        ELSE IF fieldID = 0
          THEN [st EXCEPT !.retval = Append(@, annotation)]
        ELSE IF fieldID - field.fieldID # 0
          THEN [st EXCEPT !.retval =
                   Append(@, [annotation EXCEPT !.fieldID = fieldID - field.fieldID])]
        ELSE IF opAttr.class = DontTouchClass
          THEN [st EXCEPT !.needsSym = TRUE]
        ELSE [retval |-> Append(st.retval, annotation),
              needsSym |-> isGround(field.type) /\ annotation.nonlocal # ""]

RECURSIVE filterAnnotationsLoop(_, _, _)
filterAnnotationsLoop(st, annotations, field) ==
    IF annotations = <<>> THEN st
    ELSE filterAnnotationsLoop(filterAnnotation(st, Head(annotations), field),
                               Tail(annotations), field)

\* filterAnnotations: [retval |-> the list returned, needsSym |-> the flag
\* as left in the caller's variable, whose value on entry is needsSym].
filterAnnotations(annotations, field, needsSym) ==
    filterAnnotationsLoop([retval |-> <<>>, needsSym |-> needsSym], annotations, field)

(***************************************************************************)
(* The IR of one module.  An operation is a record; a value is a pair      *)
(* <<id of the defining operation, result number>>.  Block arguments are   *)
(* kept as operations of kind "arg" that stand in no block.  Block 0 is    *)
(* the module body; the then-block of the when operation w is block w.     *)
(***************************************************************************)
BlankOp ==
    [id |-> 0, kind |-> "", operands |-> <<>>, types |-> <<>>, name |-> "",
     sym |-> "", annos |-> <<>>, idx |-> 0, hi |-> 0, ports |-> <<>>,
     target |-> "", data |-> UIntT(0), depth |-> 0, hasElse |-> FALSE]

MkOp(kind, operands, types) ==
    [BlankOp EXCEPT !.kind = kind, !.operands = operands, !.types = types]

Val(id) == <<id, 0>>

TypeOf(m, v) == m.ops[v[1]].types[v[2] + 1]

\* The operation defining v, or BlankOp for a block argument (a null
\* getDefiningOp()).
getDefiningOp(m, v) ==
    IF m.ops[v[1]].kind = "arg" THEN BlankOp ELSE m.ops[v[1]]

Users(m, v) ==
    {i \in DOMAIN m.ops : \E k \in DOMAIN m.ops[i].operands : m.ops[i].operands[k] = v}

BlockOf(m, id) == CHOOSE b \in DOMAIN m.blocks : id \in Range(m.blocks[b])

InsertBefore(s, at, x) ==
    LET p == CHOOSE i \in 1..Len(s) : s[i] = at
    IN  SubSeq(s, 1, p - 1) \o <<x>> \o SubSeq(s, p, Len(s))

\* The builder: c.blk and c.at are the insertion point (before the operation
\* c.at of block c.blk, or at the end of the block when c.at = 0).  The new
\* operation gets the id c.m.next.
Emit(c, rec) ==
    LET id == c.m.next
        blk == IF c.at = 0 THEN Append(c.m.blocks[c.blk], id)
               ELSE InsertBefore(c.m.blocks[c.blk], c.at, id)
    IN  [c EXCEPT !.m.ops = (id :> [rec EXCEPT !.id = id]) @@ @,
                  !.m.blocks[c.blk] = blk,
                  !.m.next = id + 1]

\* The id of the operation created last.
Created(c) == c.m.next - 1

replaceAllUsesWith(m, old, new) ==
    [m EXCEPT !.ops =
        [i \in DOMAIN m.ops |->
            [m.ops[i] EXCEPT !.operands =
                [k \in DOMAIN m.ops[i].operands |->
                    IF m.ops[i].operands[k] = old THEN new ELSE m.ops[i].operands[k]]]]]

\* Operation::erase for a set of operations.
EraseOps(m, ids) ==
    [m EXCEPT !.ops = Restrict(m.ops, DOMAIN m.ops \ ids),
              !.blocks = [b \in DOMAIN m.blocks |->
                            SelectSeq(m.blocks[b], LAMBDA x : x \notin ids)]]

getSubWhatever(c, val, index) ==
    LET t == TypeOf(c.m, val)
    IN  Emit(c, [MkOp(IF IsBundle(t) THEN "subfield" ELSE "subindex",
                      <<val>>, <<getElementType(t, index)>>)
                 EXCEPT !.idx = index])

\* emitConnect of FIRRTLUtils for two values of the same type: one strict
\* connect (one connect otherwise).
emitConnect(c, dst, src) ==
    Emit(c, MkOp(IF TypeOf(c.m, dst) = TypeOf(c.m, src) THEN "strictconnect" ELSE "connect",
                 <<dst, src>>, <<>>))

\* llvm_unreachable / a fatal error: the pass stops.
\* llvm_unreachable: c.tl.err records that the statement was reached.  A
\* build with assertions (c.tl.asserts) prints the message and aborts; in a
\* build without them the statement is undefined behaviour, of which the
\* model keeps the outcome that the statement does nothing and the code
\* after it goes on.
Fatal(c) == [c EXCEPT !.tl.err = TRUE]

\* The process was aborted.
Aborted(c) == c.tl.err /\ c.tl.asserts

processUsers(c, val, mapping) ==
    LET all == Users(c.m, val)
        ok == \A u \in all : c.m.ops[u].kind \in {"subindex", "subfield"}
        us == {u \in all : c.m.ops[u].kind \in {"subindex", "subfield"}}
        repl(v) == IF v[1] \in us /\ v[2] = 0
                     THEN mapping[c.m.ops[v[1]].idx + 1] ELSE v
        m1 == [c.m EXCEPT !.ops =
                 [i \in DOMAIN c.m.ops |->
                    [c.m.ops[i] EXCEPT !.operands =
                        [k \in DOMAIN c.m.ops[i].operands |->
                            repl(c.m.ops[i].operands[k])]]]]
    IN  IF ok THEN [c EXCEPT !.m = EraseOps(m1, us)]
        ELSE IF c.tl.asserts THEN Fatal(c)
        ELSE Fatal([c EXCEPT !.m = EraseOps(m1, us)])

(***************************************************************************)
(* The state of one TypeLoweringVisitor: innerRefRenames, origSymbols (as  *)
(* the map from a symbol to the leader of its class) and uniqueIdx.        *)
(***************************************************************************)
findLeader(orig, a) == IF a \in DOMAIN orig THEN orig[a] ELSE a

\* EquivalenceClasses::unionSets(a, b): the leader of a's class leads the
\* union.
unionSets(orig, a, b) ==
    LET la == findLeader(orig, a)
        lb == findLeader(orig, b)
    IN  [x \in DOMAIN orig \cup {a, b} |->
            IF findLeader(orig, x) = lb THEN la ELSE findLeader(orig, x)]

OpAnnoTarget(id) == [kind |-> "op", ref |-> id]
PortAnnoTarget(portNo) == [kind |-> "port", ref |-> portNo]

\* innerRefRenames[key].push_back(target)
pushRename(renames, key, target) ==
    IF key \in DOMAIN renames
      THEN [renames EXCEPT ![key] = Append(@, target)]
      ELSE (key :> <<target>>) @@ renames

uniqueName(c) == "__GEN_" \o IntStr(c.tl.uniqueIdx)

(***************************************************************************)
(* lowerProducer and the clone callbacks of the producers.                 *)
(***************************************************************************)
RECURSIVE getSubWhateverAll(_, _, _)
\* getSubWhatever on each value of vals, in order.
getSubWhateverAll(c, vals, index) ==
    IF vals = <<>> THEN c
    ELSE getSubWhateverAll(getSubWhatever(c, Head(vals), index), Tail(vals), index)

\* The bits taken for every field start at bit 0.
extractBitsFromZero(c, src, upto, fieldBits) ==
    Emit(c, [MkOp("bits", <<src>>, <<UIntT(fieldBits)>>)
             EXCEPT !.hi = fieldBits - 1, !.idx = 0])

\* builder->create<BitsPrimOp>(srcLoweredVal, uptoBits + fieldBits - 1,
\* uptoBits) in the clone callback of BitCastOp.
extractBits(c, src, upto, fieldBits) ==
    Emit(c, [MkOp("bits", <<src>>, <<UIntT(fieldBits)>>)
             EXCEPT !.hi = upto + fieldBits - 1, !.idx = upto])

\* The clone callback of each producer; the operation created last is the
\* clone.  aux = [src, upto] is the state the callback of BitCastOp captures.
\* An operation that is created gets the id c.m.next.
clone(c, op, field, attrs, aux) ==
    LET sub1 == Val(c.m.next)
        sub2 == Val(c.m.next + 1)
        fieldBits == getBitWidth(field.type)
    IN  CASE op.kind = "wire" ->
               [c |-> Emit(c, [MkOp("wire", <<>>, <<field.type>>) EXCEPT !.annos = attrs]),
                aux |-> aux]
          [] op.kind = "reg" ->
               [c |-> Emit(c, [MkOp("reg", <<op.operands[1]>>, <<field.type>>)
                               EXCEPT !.annos = attrs]),
                aux |-> aux]
          [] op.kind = "regreset" ->
               [c |-> Emit(getSubWhatever(c, op.operands[3], field.index),
                           [MkOp("regreset", <<op.operands[1], op.operands[2], sub1>>,
                                 <<field.type>>)
                            EXCEPT !.annos = attrs]),
                aux |-> aux]
          [] op.kind = "node" ->
               [c |-> Emit(getSubWhatever(c, op.operands[1], field.index),
                           [MkOp("node", <<sub1>>, <<field.type>>) EXCEPT !.annos = attrs]),
                aux |-> aux]
          [] op.kind = "invalid" ->
               [c |-> Emit(c, MkOp("invalid", <<>>, <<field.type>>)), aux |-> aux]
          [] op.kind = "mux" ->
               [c |-> Emit(getSubWhatever(getSubWhatever(c, op.operands[2], field.index),
                                          op.operands[3], field.index),
                           MkOp("mux", <<op.operands[1], sub1, sub2>>,
                                <<getElementType(TypeOf(c.m, op.operands[2]), field.index)>>)),
                aux |-> aux]
          [] op.kind = "cast" ->
               [c |-> Emit(getSubWhatever(c, op.operands[1], field.index),
                           MkOp("cast", <<sub1>>, <<field.type>>)),
                aux |-> aux]
          [] op.kind = "multibit_mux" ->
               [c |-> Emit(getSubWhateverAll(c, Tail(op.operands), field.index),
                           MkOp("multibit_mux",
                                <<op.operands[1]>>
                                \o [i \in 1..(Len(op.operands) - 1) |-> Val(c.m.next + i - 1)],
                                <<getElementType(TypeOf(c.m, op.operands[2]), field.index)>>)),
                aux |-> aux]
          [] op.kind = "bitcast" ->
               IF fieldBits = 0
                 THEN [c |-> Emit(c, MkOp("invalid", <<>>, <<field.type>>)), aux |-> aux]
                 ELSE [c |-> Emit(extractBits(c, aux.src, aux.upto, fieldBits),
                                  MkOp("bitcast", <<sub1>>, <<field.type>>)),
                       aux |-> [aux EXCEPT !.upto = @ + fieldBits]]

\* The statements of the loop of lowerProducer that follow the call of
\* clone: cl = [c, aux] is what the call left, fa what filterAnnotations
\* gave.
nameLowered(cl, fa, st, op, field, loweredName, loweredSymName) ==
    LET newId == Created(cl.c)
        setSym == fa.needsSym \/ op.sym # ""
        named == [cl.c.m.ops[newId] EXCEPT
                     !.name = IF loweredName # "" THEN loweredName ELSE @,
                     !.sym = IF setSym THEN loweredSymName ELSE @]
        orig1 == IF setSym /\ op.sym # ""
                   THEN unionSets(cl.c.tl.orig, op.sym, loweredSymName)
                   ELSE cl.c.tl.orig
        renames1 == IF setSym /\ op.sym # "" /\ isGround(field.type)
                      THEN pushRename(cl.c.tl.renames,
                                      <<cl.c.m.name, findLeader(orig1, op.sym)>>,
                                      OpAnnoTarget(newId))
                      ELSE cl.c.tl.renames
    IN  [c |-> [cl.c EXCEPT !.m.ops[newId] = named,
                            !.tl.orig = orig1,
                            !.tl.renames = renames1],
         aux |-> cl.aux,
         lowered |-> Append(st.lowered, Val(newId))]

\* The body of the loop of lowerProducer for one field:
\* st = [c, aux, lowered].
lowerProducerField(st, op, field, baseName, baseSymName) ==
    nameLowered(clone(st.c, op, field, filterAnnotations(op.annos, field, FALSE).retval,
                      st.aux),
                filterAnnotations(op.annos, field, FALSE),
                st, op, field,
                IF baseName # "" THEN baseName \o field.suffix ELSE baseName,
                baseSymName \o field.suffix)

RECURSIVE lowerProducerLoop(_, _, _, _, _)
lowerProducerLoop(st, op, fields, baseName, baseSymName) ==
    IF fields = <<>> THEN st
    ELSE lowerProducerLoop(lowerProducerField(st, op, Head(fields), baseName, baseSymName),
                           op, Tail(fields), baseName, baseSymName)

\* The end of lowerProducer: st is what the loop left.
replaceProducer(st, op) == processUsers(st.c, Val(op.id), st.lowered)

\* lowerProducer: [c, remove |-> the bool returned].
lowerProducer(c, op, aux) ==
    LET peel == peelType(op.types[1], c.tl.preserveAggregate)
        needUnique == op.sym = "" /\ op.name = ""
        baseSymName == IF op.sym # "" THEN op.sym
                       ELSE IF op.name # "" THEN op.name ELSE uniqueName(c)
        c0 == IF needUnique THEN [c EXCEPT !.tl.uniqueIdx = @ + 1] ELSE c
    IN  IF ~peel.ok THEN [c |-> c, remove |-> FALSE]
        ELSE [c |-> replaceProducer(
                        lowerProducerLoop([c |-> c0, aux |-> aux, lowered |-> <<>>],
                                          op, peel.fields, op.name, baseSymName),
                        op),
              remove |-> TRUE]

NoAux == [src |-> <<0, 0>>, upto |-> 0]

(***************************************************************************)
(* The producers that only call lowerProducer.                             *)
(***************************************************************************)
visitDeclWire(c, op) == lowerProducer(c, op, NoAux)
visitDeclReg(c, op) == lowerProducer(c, op, NoAux)
visitDeclRegReset(c, op) == lowerProducer(c, op, NoAux)
visitDeclNode(c, op) == lowerProducer(c, op, NoAux)
visitExprInvalidValue(c, op) == lowerProducer(c, op, NoAux)
visitExprMux(c, op) == lowerProducer(c, op, NoAux)
visitExprCast(c, op) == lowerProducer(c, op, NoAux)
visitExprMultibitMux(c, op) == lowerProducer(c, op, NoAux)

(***************************************************************************)
(* Connects and the write path through a subaccess.                        *)
(***************************************************************************)
RECURSIVE Log2CeilFrom(_, _)
Log2CeilFrom(n, w) == IF Pow2(w) >= n THEN w ELSE Log2CeilFrom(n, w + 1)

RECURSIVE Log2FloorFrom(_, _)
Log2FloorFrom(n, w) == IF Pow2(w + 1) > n THEN w ELSE Log2FloorFrom(n, w + 1)

\* The logarithm rounded down instead of up.
Log2Floor(n) == IF n = 0 THEN 64 ELSE Log2FloorFrom(n, 0)

\* llvm::Log2_64_Ceil
Log2_64_Ceil(n) == IF n = 0 THEN 64 ELSE Log2CeilFrom(n, 0)

isNotSubAccess(m, op) ==
    IF op.kind # "subaccess" THEN TRUE
    ELSE IF getDefiningOp(m, op.operands[2]).kind = "constant"
            /\ getNumElements(TypeOf(m, op.operands[1])) # 0
      THEN TRUE
      ELSE FALSE

RECURSIVE accessChain(_, _)
\* The first loop of getSAWritePath, from the value v upwards.
accessChain(m, v) ==
    LET defOp == getDefiningOp(m, v)
    IN  IF defOp.kind \in {"subfield", "subindex", "subaccess"}
          THEN <<defOp.id>> \o accessChain(m, defOp.operands[1])
          ELSE <<>>

RECURSIVE trimToSubaccess(_, _)
\* The second loop of getSAWritePath.
trimToSubaccess(m, retval) ==
    IF retval # <<>> /\ isNotSubAccess(m, m.ops[Last(retval)])
      THEN trimToSubaccess(m, SubSeq(retval, 1, Len(retval) - 1))
      ELSE retval

getSAWritePath(m, op) == trimToSubaccess(m, accessChain(m, op.operands[1]))

\* cloneAccess: the accessor accOp rebuilt over rhs.
cloneAccess(c, accOp, rhs) ==
    LET t == TypeOf(c.m, rhs)
    IN  IF accOp.kind = "subaccess"
          THEN Emit(c, MkOp("subaccess", <<rhs, accOp.operands[2]>>, <<t.elt>>))
          ELSE Emit(c, [MkOp(accOp.kind, <<rhs>>, <<getElementType(t, accOp.idx)>>)
                        EXCEPT !.idx = accOp.idx])

RECURSIVE cloneAccessPath(_, _, _, _)
\* for (int i = writePath.size() - 2; i >= 0; --i) leaf = cloneAccess(...):
\* [c, leaf].
cloneAccessPath(c, writePath, i, leaf) ==
    IF i < 1 THEN [c |-> c, leaf |-> leaf]
    ELSE cloneAccessPath(cloneAccess(c, c.m.ops[writePath[i]], leaf),
                         writePath, i - 1, Val(c.m.next))

\* The width of the constants compared with the index.
selectWidthOf(saoType) == Log2_64_Ceil(getNumElements(saoType))

\* emitConnect(*builder, leaf, op->getOperand(1)) on the leaf that
\* cloneAccessPath left in r.
connectLeaf(r, op) == emitConnect(r.c, r.leaf, op.operands[2])

\* One iteration of the loop of lowerSAWritePath: the constant, the
\* comparison, and the when with the rebuilt write in its then-block.  The
\* four operations get the ids from c.m.next on.
lowerSAWriteIndex(c, op, writePath, index) ==
    LET sao == c.m.ops[Last(writePath)]
        selectWidth == selectWidthOf(TypeOf(c.m, sao.operands[1]))
        id == c.m.next
        c1 == Emit(c, [MkOp("constant", <<>>, <<UIntT(selectWidth)>>)
                       EXCEPT !.idx = index % Pow2(selectWidth)])
        c2 == Emit(c1, MkOp("eq", <<sao.operands[2], Val(id)>>, <<UIntT(1)>>))
        c3 == Emit(c2, MkOp("when", <<Val(id + 1)>>, <<>>))
        inW == [c3 EXCEPT !.m.blocks = ((id + 2) :> <<>>) @@ @, !.blk = id + 2, !.at = 0]
        c4 == Emit(inW, [MkOp("subindex", <<sao.operands[1]>>,
                              <<TypeOf(c.m, sao.operands[1]).elt>>)
                         EXCEPT !.idx = index])
        c5 == connectLeaf(cloneAccessPath(c4, writePath, Len(writePath) - 1, Val(id + 3)),
                          op)
    IN  [c5 EXCEPT !.blk = c.blk, !.at = c.at]

RECURSIVE lowerSAWriteLoop(_, _, _, _, _)
lowerSAWriteLoop(c, op, writePath, index, e) ==
    IF index >= e THEN c
    ELSE lowerSAWriteLoop(lowerSAWriteIndex(c, op, writePath, index),
                          op, writePath, index + 1, e)

lowerSAWritePath(c, op, writePath) ==
    lowerSAWriteLoop(c, op, writePath, 0,
                     getNumElements(TypeOf(c.m, c.m.ops[Last(writePath)].operands[1])))

RECURSIVE eraseDeadPath(_, _)
\* Erase the accessors of the write path as far up as they have no use.
eraseDeadPath(m, writePath) ==
    IF writePath = <<>> THEN m
    ELSE IF Users(m, Val(Head(writePath))) = {}
      THEN eraseDeadPath(EraseOps(m, {Head(writePath)}), Tail(writePath))
      ELSE m

\* The end of processSAPath: the operands of the connect are dropped and
\* the accessors of the write path are erased as far up as they are dead.
eraseSAPath(c, op, writePath) ==
    [c EXCEPT !.m = eraseDeadPath([c.m EXCEPT !.ops[op.id].operands = <<>>], writePath)]

\* processSAPath: [c, handled |-> the bool returned].
processSAPath(c, op) ==
    LET writePath == getSAWritePath(c.m, op)
    IN  IF writePath = <<>> THEN [c |-> c, handled |-> FALSE]
        ELSE [c |-> eraseSAPath(lowerSAWritePath(c, op, writePath), op, writePath),
              handled |-> TRUE]

\* connectField without the swap on a flipped field.
connectFieldNoSwap(c, op, field) ==
    emitConnect(getSubWhatever(getSubWhatever(c, op.operands[2], field.index),
                               op.operands[1], field.index),
                Val(c.m.next + 1), Val(c.m.next))

\* The loop body of visitStmt(ConnectOp) / visitStmt(StrictConnectOp); the
\* two accessors get the ids c.m.next and c.m.next + 1.
connectField(c, op, field) ==
    LET src == Val(c.m.next)
        dest == Val(c.m.next + 1)
        c2 == getSubWhatever(getSubWhatever(c, op.operands[2], field.index),
                             op.operands[1], field.index)
    IN  IF op.kind = "connect"
          THEN emitConnect(c2, IF field.isOutput THEN src ELSE dest,
                           IF field.isOutput THEN dest ELSE src)
          ELSE Emit(c2, MkOp("strictconnect",
                             IF field.isOutput THEN <<src, dest>> ELSE <<dest, src>>,
                             <<>>))

RECURSIVE connectFields(_, _, _)
connectFields(c, op, fields) ==
    IF fields = <<>> THEN c
    ELSE connectFields(connectField(c, op, Head(fields)), op, Tail(fields))

\* visitStmt(ConnectOp) and visitStmt(StrictConnectOp) after the call of
\* processSAPath, which gave sa.
connectAfterSAPath(sa, c, op) ==
    LET peel == peelType(TypeOf(c.m, op.operands[1]), FALSE)
    IN  IF sa.handled THEN [c |-> sa.c, remove |-> TRUE]
        ELSE IF ~peel.ok THEN [c |-> c, remove |-> FALSE]
        ELSE [c |-> connectFields(c, op, peel.fields), remove |-> TRUE]

visitConnect(c, op) == connectAfterSAPath(processSAPath(c, op), c, op)

visitStmtConnect(c, op) == visitConnect(c, op)
visitStmtStrictConnect(c, op) == visitConnect(c, op)

(***************************************************************************)
(* A subaccess that is read.                                               *)
(***************************************************************************)
RECURSIVE subindexUpFrom(_, _, _, _, _)
subindexUpFrom(c, input, index, last, inputs) ==
    IF index > last THEN [c |-> c, vals |-> inputs]
    ELSE subindexUpFrom(Emit(c, [MkOp("subindex", <<input>>, <<TypeOf(c.m, input).elt>>)
                                 EXCEPT !.idx = index]),
                        input, index + 1, last, Append(inputs, Val(c.m.next)))

\* The elements pushed from 0 up to index instead of from index down to 0.
subindexUp(c, input, index, inputs) == subindexUpFrom(c, input, 0, index, inputs)

RECURSIVE subindexDown(_, _, _, _)
\* for (int index = n - 1; index >= 0; index--) inputs.push_back(subindex)
subindexDown(c, input, index, inputs) ==
    IF index < 0 THEN [c |-> c, vals |-> inputs]
    ELSE LET c1 == Emit(c, [MkOp("subindex", <<input>>, <<TypeOf(c.m, input).elt>>)
                            EXCEPT !.idx = index])
         IN  subindexDown(c1, input, index - 1, Append(inputs, Val(Created(c1))))

visitExprSubaccess(c, op) ==
    LET input == op.operands[1]
        vType == TypeOf(c.m, input)
        arg == getDefiningOp(c.m, op.operands[2])
        cInv == Emit(c, MkOp("invalid", <<>>, <<vType.elt>>))
        cSio == Emit(c, [MkOp("subindex", <<input>>, <<vType.elt>>) EXCEPT !.idx = arg.idx])
        r == subindexDown(c, input, vType.n - 1, <<>>)
        cMux == Emit(r.c, MkOp("multibit_mux", <<op.operands[2]>> \o r.vals, <<vType.elt>>))
        done(cx) == [c |-> [cx EXCEPT !.m = replaceAllUsesWith(cx.m, Val(op.id),
                                                               Val(Created(cx)))],
                     remove |-> TRUE]
    IN  IF vType.n = 0 THEN done(cInv)
        ELSE IF arg.kind = "constant" THEN done(cSio)
        ELSE done(cMux)

(***************************************************************************)
(* BitCastOp.                                                              *)
(***************************************************************************)
\* builder->createOrFold<BitCastOp>(type, src): no operation when src has the
\* type already.  [c, val].
createOrFoldBitCast(c, type, src) ==
    IF TypeOf(c.m, src) = type THEN [c |-> c, val |-> src]
    ELSE [c |-> Emit(c, MkOp("bitcast", <<src>>, <<type>>)), val |-> Val(c.m.next)]

\* builder->createOrFold<AsUIntPrimOp>(src): no operation on a UInt.
createOrFoldAsUInt(c, src) ==
    IF TypeOf(c.m, src).k = "uint" THEN [c |-> c, val |-> src]
    ELSE [c |-> Emit(c, MkOp("asUInt", <<src>>, <<UIntT(getBitWidth(TypeOf(c.m, src)))>>)),
          val |-> Val(c.m.next)]

\* catField with the operands of the concatenation exchanged.
catFieldBelow(f, st, fieldBitwidth) ==
    IF st.upto = 0
      THEN [c |-> f.c, val |-> f.val, upto |-> st.upto + fieldBitwidth]
      ELSE [c |-> Emit(f.c, MkOp("cat", <<st.val, f.val>>,
                                 <<UIntT(st.upto + fieldBitwidth)>>)),
            val |-> Val(f.c.m.next), upto |-> st.upto + fieldBitwidth]

\* The first field is taken, any later one is concatenated with the fields
\* before it: f = [c, val] is the field as a UInt.
catField(f, st, fieldBitwidth) ==
    IF st.upto = 0
      THEN [c |-> f.c, val |-> f.val, upto |-> st.upto + fieldBitwidth]
      ELSE [c |-> Emit(f.c, MkOp("cat", <<f.val, st.val>>,
                                 <<UIntT(st.upto + fieldBitwidth)>>)),
            val |-> Val(f.c.m.next), upto |-> st.upto + fieldBitwidth]

\* One iteration of the loop that concatenates the fields of the input:
\* st = [c, val |-> srcLoweredVal, upto |-> uptoBits].
bitCastSourceField(st, op, field) ==
    IF getBitWidth(field.type) = 0 THEN st
    ELSE catField(createOrFoldBitCast(getSubWhatever(st.c, op.operands[1], field.index),
                                      UIntT(getBitWidth(field.type)), Val(st.c.m.next)),
                  st, getBitWidth(field.type))

RECURSIVE bitCastSourceLoop(_, _, _)
bitCastSourceLoop(st, op, fields) ==
    IF fields = <<>> THEN st
    ELSE bitCastSourceLoop(bitCastSourceField(st, op, Head(fields)), op, Tail(fields))

\* The first half of visitExpr(BitCastOp): the input as one UInt. [c, val]
bitCastSource(c, op) ==
    LET peel == peelType(TypeOf(c.m, op.operands[1]), FALSE)
    IN  IF peel.ok
          THEN bitCastSourceLoop([c |-> c, val |-> op.operands[1], upto |-> 0],
                                 op, peel.fields)
          ELSE createOrFoldAsUInt(c, op.operands[1])

\* The second half of visitExpr(BitCastOp): s = [c, val] is the input as one
\* UInt.
bitCastResult(s, op) ==
    IF IsAggregate(op.types[1])
      THEN lowerProducer(s.c, op, [src |-> s.val, upto |-> 0])
    ELSE IF op.types[1].k = "sint"
      THEN [c |-> [s.c EXCEPT !.m = replaceAllUsesWith(
                                        Emit(s.c, MkOp("asSInt", <<s.val>>, <<op.types[1]>>)).m,
                                        Val(op.id), Val(s.c.m.next))],
            remove |-> TRUE]
      ELSE [c |-> [s.c EXCEPT !.m = replaceAllUsesWith(s.c.m, Val(op.id), s.val)],
            remove |-> TRUE]

visitExprBitCast(c, op) == bitCastResult(bitCastSource(c, op), op)

(***************************************************************************)
(* MemOp.                                                                  *)
(***************************************************************************)
RECURSIVE getMaskType(_)
\* The type of a mask of a memory of data type t.
getMaskType(t) ==
    IF IsBundle(t)
      THEN BundleT([i \in 1..Len(t.elts) |->
                      Elt(t.elts[i].name, FALSE, getMaskType(t.elts[i].type))])
      ELSE IF IsVector(t) THEN VectorT(getMaskType(t.elt), t.n) ELSE UIntT(1)

\* MemOp::getTypeForPort
getTypeForPort(depth, dataType, portKind) ==
    LET addr == UIntT(IF Log2_64_Ceil(depth) = 0 THEN 1 ELSE Log2_64_Ceil(depth))
        common == <<Elt("addr", FALSE, addr), Elt("en", FALSE, UIntT(1)),
                    Elt("clk", FALSE, ClockT)>>
    IN  IF portKind = "read"
          THEN BundleT(common \o <<Elt("data", TRUE, dataType)>>)
        ELSE IF portKind = "write"
          THEN BundleT(common \o <<Elt("data", FALSE, dataType),
                                   Elt("mask", FALSE, getMaskType(dataType))>>)
          ELSE BundleT(common \o <<Elt("rdata", TRUE, dataType),
                                   Elt("wmode", FALSE, UIntT(1)),
                                   Elt("wdata", FALSE, dataType),
                                   Elt("wmask", FALSE, getMaskType(dataType))>>)

\* BundleType::getIndexForFieldID: the element that holds the field ID.
getIndexForFieldID(t, fieldID) ==
    CHOOSE i \in 0..(Len(t.elts) - 1) :
        /\ getFieldID(t, i) <= fieldID
        /\ fieldID <= getFieldID(t, i) + getMaxFieldID(t.elts[i + 1].type)

\* The loop body of cloneMemWithNewType over the annotations of one port:
\* the annotations kept for the memory of the field.
memPortAnno(anno, oldPortType, portType, field) ==
    LET annoFieldID == IF anno.fieldID = -1 THEN 0 ELSE anno.fieldID
        targetIndex == getIndexForFieldID(oldPortType, annoFieldID)
        fieldID == field.fieldID + getFieldID(oldPortType, targetIndex)
    IN  IF annoFieldID = 0 THEN <<anno>>
        ELSE IF annoFieldID = getFieldID(oldPortType, targetIndex)
          THEN <<[anno EXCEPT !.fieldID = getFieldID(portType, targetIndex)]>>
        ELSE IF IsBundle(oldPortType.elts[targetIndex + 1].type)
                /\ annoFieldID >= fieldID
                /\ annoFieldID <= fieldID + getMaxFieldID(field.type)
          THEN <<[anno EXCEPT !.fieldID =
                      annoFieldID - fieldID + getFieldID(portType, targetIndex)]>>
          ELSE <<>>

RECURSIVE memPortAnnos(_, _, _, _)
memPortAnnos(annos, oldPortType, portType, field) ==
    IF annos = <<>> THEN <<>>
    ELSE memPortAnno(Head(annos), oldPortType, portType, field)
         \o memPortAnnos(Tail(annos), oldPortType, portType, field)

\* cloneMemWithNewType: the memory of one field of the data type.
cloneMemWithNewType(c, op, field) ==
    LET ports == [p \in 1..Len(op.ports) |->
                    getTypeForPort(op.depth, field.type, op.ports[p].kind)]
    IN  Emit(c, [MkOp("mem", <<>>, ports) EXCEPT
                   !.name = op.name \o field.suffix,
                   !.annos = op.annos,
                   !.sym = IF op.sym # "" THEN op.sym \o (op.name \o field.suffix) ELSE op.sym,
                   !.data = field.type,
                   !.depth = op.depth,
                   !.ports = [p \in 1..Len(op.ports) |->
                                [op.ports[p] EXCEPT !.annos =
                                    memPortAnnos(op.ports[p].annos, op.types[p],
                                                 ports[p], field)]]])

RECURSIVE memWires(_, _, _, _)
\* The wires that stand for the old ports: [c, oldPorts].  The wire gets the
\* id c.m.next.
memWires(c, op, index, oldPorts) ==
    IF index > Len(op.ports) THEN [c |-> c, oldPorts |-> oldPorts]
    ELSE memWires([Emit(c, [MkOp("wire", <<>>, <<op.types[index]>>)
                            EXCEPT !.name = op.name \o "_" \o op.ports[index].name])
                   EXCEPT !.m = replaceAllUsesWith(@, <<op.id, index - 1>>, Val(c.m.next))],
                  op, index + 1, Append(oldPorts, c.m.next))

RECURSIVE memClones(_, _, _, _)
\* [c, newMemories]
memClones(c, op, fields, newMemories) ==
    IF fields = <<>> THEN [c |-> c, newMemories |-> newMemories]
    ELSE memClones(cloneMemWithNewType(c, op, Head(fields)), op, Tail(fields),
                   Append(newMemories, c.m.next))

\* memHookDataField without the swap for a flipped sub-field.
memHookDataFieldNoSwap(c, oldField, newMemories, index, fieldIndex, isFlip, field) ==
    emitConnect(getSubWhatever(getSubWhatever(c, oldField, field.index),
                               <<newMemories[field.index + 1], index>>, fieldIndex),
                Val(c.m.next + 1), Val(c.m.next))

\* A data or mask sub-field of a port, for one field of the data type; the
\* two accessors get the ids c.m.next and c.m.next + 1.
memHookDataField(c, oldField, newMemories, index, fieldIndex, isFlip, field) ==
    LET realOldField == Val(c.m.next)
        newField == Val(c.m.next + 1)
    IN  emitConnect(getSubWhatever(getSubWhatever(c, oldField, field.index),
                                   <<newMemories[field.index + 1], index>>, fieldIndex),
                    IF isFlip THEN realOldField ELSE newField,
                    IF isFlip THEN newField ELSE realOldField)

RECURSIVE memHookData(_, _, _, _, _, _, _)
memHookData(c, oldField, newMemories, index, fieldIndex, isFlip, fields) ==
    IF fields = <<>> THEN c
    ELSE memHookData(memHookDataField(c, oldField, newMemories, index, fieldIndex,
                                      isFlip, Head(fields)),
                     oldField, newMemories, index, fieldIndex, isFlip, Tail(fields))

RECURSIVE memHookOther(_, _, _, _, _)
\* Any other sub-field of a port goes to every new memory.
memHookOther(c, oldField, mems, index, fieldIndex) ==
    IF mems = <<>> THEN c
    ELSE memHookOther(
             emitConnect(Emit(c, [MkOp("subfield", <<<<Head(mems), index>>>>,
                                       <<c.m.ops[Head(mems)].types[index + 1]
                                            .elts[fieldIndex + 1].type>>)
                                  EXCEPT !.idx = fieldIndex]),
                         Val(c.m.next), oldField),
             oldField, Tail(mems), index, fieldIndex)

DataFieldNames == {"data", "mask", "wdata", "wmask", "rdata"}

\* One sub-field of the wire of one old port.
memHookField(c, result, newMemories, index, fieldIndex, fields) ==
    LET rType == c.m.ops[result].types[1]
        e == rType.elts[fieldIndex + 1]
        c1 == Emit(c, [MkOp("subfield", <<Val(result)>>, <<e.type>>)
                       EXCEPT !.idx = fieldIndex])
        oldField == Val(Created(c1))
    IN  IF e.name \in DataFieldNames
          THEN memHookData(c1, oldField, newMemories, index, fieldIndex, e.flip, fields)
          ELSE memHookOther(c1, oldField, newMemories, index, fieldIndex)

RECURSIVE memHookPort(_, _, _, _, _, _)
memHookPort(c, result, newMemories, index, fieldIndex, fields) ==
    IF fieldIndex >= Len(c.m.ops[result].types[1].elts) THEN c
    ELSE memHookPort(memHookField(c, result, newMemories, index, fieldIndex, fields),
                     result, newMemories, index, fieldIndex + 1, fields)

RECURSIVE memHookPorts(_, _, _, _, _)
memHookPorts(c, oldPorts, newMemories, index, fields) ==
    IF index >= Len(oldPorts) THEN c
    ELSE memHookPorts(memHookPort(c, oldPorts[index + 1], newMemories, index, 0, fields),
                      oldPorts, newMemories, index + 1, fields)

\* The loop over the old ports, once the new memories are there.
memHook(ms, oldPorts, fields) ==
    memHookPorts(ms.c, oldPorts, ms.newMemories, 0, fields)

\* The new memories, once the wires of the old ports are there.
memLower(w, op, fields) == memHook(memClones(w.c, op, fields, <<>>), w.oldPorts, fields)

visitDeclMem(c, op) ==
    LET peel == peelType(op.data, FALSE)
    IN  IF ~peel.ok THEN [c |-> c, remove |-> FALSE]
        ELSE [c |-> memLower(memWires(c, op, 1, <<>>), op, peel.fields), remove |-> TRUE]

(***************************************************************************)
(* InstanceOp.  c.tl.symTbl maps a module name to [isExt, isPublic].       *)
(***************************************************************************)
\* The policy without the force-public-decomposition switch.
allowedByPreserveAggregateOnly(tl, module) == tl.preserveAggregate

isModuleAllowedToPreserveAggregate(tl, module) ==
    IF ~tl.preserveAggregate THEN FALSE
    ELSE IF ~tl.preservePublicTypes THEN TRUE
    ELSE IF module.isExt THEN FALSE
    ELSE ~module.isPublic

FlipDir(dir, isOutput) == IF isOutput THEN (IF dir = "in" THEN "out" ELSE "in") ELSE dir

\* The fields of one decomposed port of an instance: st = [ports, types,
\* needsSymbol] are newNames/newDirs/newPortAnno, resultTypes and the flag.
RECURSIVE instanceFields(_, _, _, _)
instanceFields(st, op, i, fields) ==
    IF fields = <<>> THEN st
    ELSE LET field == Head(fields)
             fa == filterAnnotations(op.ports[i].annos, field, st.needsSymbol)
         IN  instanceFields(
                 [ports |-> Append(st.ports,
                                   [name |-> op.ports[i].name \o field.suffix,
                                    dir |-> FlipDir(op.ports[i].dir, field.isOutput),
                                    annos |-> fa.retval]),
                  types |-> Append(st.types, field.type),
                  needsSymbol |-> fa.needsSym,
                  endFields |-> st.endFields,
                  skip |-> FALSE],
                 op, i, Tail(fields))

RECURSIVE instancePorts(_, _, _, _)
\* The first loop of visitDecl(InstanceOp).
instancePorts(st, op, i, allowedToPreserveAggregate) ==
    IF i > Len(op.types) THEN st
    ELSE LET peel == peelType(op.types[i], allowedToPreserveAggregate)
             st1 == IF ~peel.ok
                      THEN [st EXCEPT !.ports = Append(@, op.ports[i]),
                                      !.types = Append(@, op.types[i])]
                      ELSE instanceFields([st EXCEPT !.skip = FALSE], op, i, peel.fields)
         IN  instancePorts([st1 EXCEPT !.endFields = Append(@, Len(st1.types))],
                           op, i + 1, allowedToPreserveAggregate)

RECURSIVE instanceUsers(_, _, _, _, _)
\* The last loop of visitDecl(InstanceOp).
instanceUsers(c, op, newInstance, st, aggIndex) ==
    IF aggIndex >= Len(op.types) THEN c
    ELSE LET from == st.endFields[aggIndex + 1]
             to == st.endFields[aggIndex + 2]
             lowered == [k \in 1..(to - from) |-> <<newInstance, from + k - 1>>]
             c1 == IF Len(lowered) # 1 \/ op.types[aggIndex + 1] # st.types[from + 1]
                     THEN processUsers(c, <<op.id, aggIndex>>, lowered)
                     ELSE [c EXCEPT !.m = replaceAllUsesWith(c.m, <<op.id, aggIndex>>,
                                                             lowered[1])]
         IN  IF Aborted(c1) THEN c1
             ELSE instanceUsers(c1, op, newInstance, st, aggIndex + 1)

\* The new instance and the rewiring of the users of the old one: st is
\* what the loop over the ports left.  The new instance gets the id c.m.next.
instanceLower(st, c, op) ==
    LET sym == IF op.sym = "" /\ st.needsSymbol THEN "sym" \o op.name ELSE op.sym
    IN  IF st.skip THEN [c |-> c, remove |-> FALSE]
        ELSE [c |-> instanceUsers(
                        Emit(c, [MkOp("instance", <<>>, st.types) EXCEPT
                                   !.target = op.target, !.name = op.name,
                                   !.annos = op.annos, !.ports = st.ports, !.sym = sym]),
                        op, c.m.next, st, 0),
              remove |-> TRUE]

\* visitDecl(InstanceOp) with allowedToPreserveAggregate false for every
\* module.
visitDeclInstanceAllPeeled(c, op) ==
    instanceLower(instancePorts([ports |-> <<>>, types |-> <<>>, needsSymbol |-> FALSE,
                                 endFields |-> <<0>>, skip |-> TRUE],
                                op, 1, FALSE),
                  c, op)

visitDeclInstance(c, op) ==
    instanceLower(instancePorts([ports |-> <<>>, types |-> <<>>, needsSymbol |-> FALSE,
                                 endFields |-> <<0>>, skip |-> TRUE],
                                op, 1,
                                isModuleAllowedToPreserveAggregate(
                                    c.tl, c.tl.symTbl[op.target])),
                  c, op)

(***************************************************************************)
(* Ports: addArg and lowerArg.  c.newArgs is the vector newArgs; a port is *)
(* [id, name, type, dir, sym, annos], id being its block argument.         *)
(***************************************************************************)
\* Putting the new port at the end of the list instead.
InsertAtEnd(s, pos, x) == Append(s, x)

InsertAt(s, pos, x) == SubSeq(s, 1, pos) \o <<x>> \o SubSeq(s, pos + 1, Len(s))

\* The port number addArg records for the field added at insertPt.
recordedPortNo(insertPt, insertPtOffset) == insertPt - 1 - insertPtOffset

\* addArg: the new block argument and its PortInfo, put into newArgs at
\* insertPt (the insertion is the statement of lowerArg that follows the call).
addArg(c, insertPt, insertPtOffset, field, oldArg) ==
    LET id == c.m.next
        name == oldArg.name \o field.suffix
        oldArgHadSym == oldArg.sym # ""
        sym == IF oldArgHadSym THEN oldArg.sym \o field.suffix ELSE name
        fa == filterAnnotations(oldArg.annos, field, FALSE)
        newSym == IF fa.needsSym \/ oldArgHadSym THEN sym ELSE ""
        orig1 == IF oldArgHadSym THEN unionSets(c.tl.orig, oldArg.sym, newSym)
                 ELSE c.tl.orig
        renames1 == IF oldArgHadSym /\ isGround(field.type)
                      THEN pushRename(c.tl.renames,
                                      <<c.m.name, findLeader(orig1, oldArg.sym)>>,
                                      PortAnnoTarget(recordedPortNo(insertPt, insertPtOffset)))
                      ELSE c.tl.renames
        port == [id |-> id, name |-> name, type |-> field.type,
                 dir |-> FlipDir(oldArg.dir, field.isOutput), sym |-> newSym,
                 annos |-> fa.retval]
    IN  [c EXCEPT !.m.ops = (id :> [MkOp("arg", <<>>, <<field.type>>) EXCEPT !.id = id]) @@ @,
                  !.m.next = id + 1,
                  !.tl.orig = orig1,
                  !.tl.renames = renames1,
                  !.newArgs = InsertAt(@, insertPt, port)]

RECURSIVE lowerArgFields(_, _, _, _, _)
\* The loop of lowerArg: [c, lowering]; the new argument gets the id
\* c.m.next.
lowerArgFields(c, argIndex, fields, k, lowering) ==
    IF fields = <<>> THEN [c |-> c, lowering |-> lowering]
    ELSE lowerArgFields(addArg(c, 1 + argIndex + k, c.argsRemoved, Head(fields),
                               c.newArgs[argIndex + 1]),
                        argIndex, Tail(fields), k + 1, Append(lowering, Val(c.m.next)))

\* lowerArg: [c, lowering, ok |-> the bool returned].
lowerArg(c, argIndex) ==
    LET peel == peelType(c.newArgs[argIndex + 1].type,
                         isModuleAllowedToPreserveAggregate(c.tl, c.m))
    IN  IF ~peel.ok THEN [c |-> c, lowering |-> <<>>, ok |-> FALSE]
        ELSE [ok |-> TRUE] @@ lowerArgFields(c, argIndex, peel.fields, 0, <<>>)

\* The statements that follow the call of lowerArg, which gave r, in the
\* loop over the arguments.
argLowered(r, c) ==
    LET arg == c.newArgs[c.argIndex + 1].id
        c1 == IF c.m.isExt THEN r.c ELSE processUsers(r.c, Val(arg), r.lowering)
    IN  IF ~r.ok THEN [c EXCEPT !.argIndex = @ + 1]
        ELSE [c1 EXCEPT !.argsToRemove = Append(@, c.argIndex),
                        !.argsRemoved = @ + 1,
                        !.argIndex = @ + 1]

\* One iteration of the loop over the arguments in visitDecl(FModuleOp) and
\* visitDecl(FExtModuleOp).
lowerArgStep(c) == argLowered(lowerArg(c, c.argIndex), c)

\* The end of visitDecl(FModuleOp)/visitDecl(FExtModuleOp): the lowered
\* arguments are erased and the port attributes of the module are set.
finishModule(c) ==
    LET dead == {c.argsToRemove[i] + 1 : i \in DOMAIN c.argsToRemove}
        deadIds == {c.newArgs[p].id : p \in dead}
        kept == [p \in 1..Len(c.newArgs) |-> p]
        newArgs == [p \in DOMAIN SelectSeq(kept, LAMBDA q : q \notin dead) |->
                       c.newArgs[SelectSeq(kept, LAMBDA q : q \notin dead)[p]]]
    IN  [c EXCEPT !.m = [EraseOps(c.m, deadIds) EXCEPT !.ports = newArgs],
                  !.newArgs = newArgs,
                  !.phase = "done"]

(***************************************************************************)
(* The walk: lowerBlock, visitStmt(WhenOp), visitDecl(FModuleOp) and       *)
(* visitDecl(FExtModuleOp) as a state machine.  The state c of the         *)
(* lowering of one module holds the module m, the visitor's members tl,    *)
(* the stack of the active lowerBlock calls (block, reverse iterator), the *)
(* builder's insertion point (blk, at) and the locals of the argument      *)
(* loop.                                                                   *)
(***************************************************************************)
LastOf(m, blk) == IF m.blocks[blk] = <<>> THEN 0 ELSE Last(m.blocks[blk])

\* A step of the iterator that passes over one operation more.
PrevOfSkipping(m, blk, id) ==
    LET p == CHOOSE i \in 1..Len(m.blocks[blk]) : m.blocks[blk][i] = id
    IN  IF p <= 2 THEN 0 ELSE m.blocks[blk][p - 2]

\* ++it on the reverse iterator that stands at the operation id.
PrevOf(m, blk, id) ==
    LET p == CHOOSE i \in 1..Len(m.blocks[blk]) : m.blocks[blk][i] = id
    IN  IF p = 1 THEN 0 ELSE m.blocks[blk][p - 1]

Frame(m, blk) == [blk |-> blk, cur |-> LastOf(m, blk), st |-> "visit"]

\* The TypeLoweringVisitor constructed for module m and the call of
\* lowerModule.
startLowering(m, preserveAggregate, preservePublicTypes, asserts, symTbl) ==
    [m |-> m,
     tl |-> [renames |-> <<>>, orig |-> <<>>, uniqueIdx |-> 0, err |-> FALSE,
             asserts |-> asserts,
             preserveAggregate |-> preserveAggregate,
             preservePublicTypes |-> preservePublicTypes,
             symTbl |-> symTbl],
     blk |-> 0, at |-> 0,
     stack |-> IF m.isExt THEN <<>> ELSE <<Frame(m, 0)>>,
     phase |-> IF m.isExt THEN "args" ELSE "body",
     argIndex |-> 0, argsRemoved |-> 0, argsToRemove |-> <<>>,
     newArgs |-> IF m.isExt THEN m.ports ELSE <<>>]

CurFrame(c) == Last(c.stack)
CurOp(c) == c.m.ops[CurFrame(c).cur]

\* builder->setInsertionPoint(&iop)
AtCur(c) == [c EXCEPT !.blk = CurFrame(c).blk, !.at = CurFrame(c).cur]

\* The tail of one iteration of lowerBlock, r being what dispatchVisitor
\* gave: ++it, then the erasure of the operation when the visitor asked.
afterVisit(c, r) ==
    LET f == CurFrame(c)
        prev == PrevOf(r.c.m, f.blk, f.cur)
        m1 == IF r.remove THEN EraseOps(r.c.m, {f.cur}) ELSE r.c.m
    IN  IF Aborted(r.c) THEN [r.c EXCEPT !.phase = "fatal"]
        ELSE [r.c EXCEPT !.m = m1, !.stack[Len(c.stack)].cur = prev]

\* visitStmt(WhenOp): lowerBlock on the then-block begins.
enterWhen(c) ==
    [c EXCEPT !.stack = Append([@ EXCEPT ![Len(c.stack)].st = "then"],
                               Frame(c.m, CurFrame(c).cur))]

\* visitStmt(WhenOp) without the visit of the else-block.
blockDoneSkipElse(c) ==
    LET n == Len(c.stack)
        p == c.stack[n - 1]
    IN  IF n = 1
          THEN [c EXCEPT !.stack = <<>>, !.phase = "args", !.newArgs = c.m.ports]
          ELSE [c EXCEPT !.stack = [SubSeq(c.stack, 1, n - 1) EXCEPT ![n - 1] =
                                       [blk |-> p.blk, cur |-> PrevOf(c.m, p.blk, p.cur),
                                        st |-> "visit"]]]

\* A lowerBlock call returns: to visitStmt(WhenOp), which goes on with the
\* else-block or returns false, or to visitDecl(FModuleOp), which goes on
\* with the arguments.
blockDone(c) ==
    LET n == Len(c.stack)
        p == c.stack[n - 1]
        w == c.m.ops[p.cur]
        popped == SubSeq(c.stack, 1, n - 1)
    IN  IF n = 1
          THEN [c EXCEPT !.stack = <<>>, !.phase = "args", !.newArgs = c.m.ports]
        ELSE IF p.st = "then" /\ w.hasElse
          THEN [c EXCEPT !.stack = Append([popped EXCEPT ![n - 1].st = "else"],
                                          Frame(c.m, -w.id))]
          ELSE [c EXCEPT !.stack = [popped EXCEPT ![n - 1] =
                                       [blk |-> p.blk, cur |-> PrevOf(c.m, p.blk, p.cur),
                                        st |-> "visit"]]]

\* dispatchVisitor for every operation but WhenOp; an operation without a
\* visitor is left alone.
dispatchVisitor(c, op) ==
    CASE op.kind = "wire" -> visitDeclWire(c, op)
      [] op.kind = "reg" -> visitDeclReg(c, op)
      [] op.kind = "regreset" -> visitDeclRegReset(c, op)
      [] op.kind = "node" -> visitDeclNode(c, op)
      [] op.kind = "invalid" -> visitExprInvalidValue(c, op)
      [] op.kind = "mux" -> visitExprMux(c, op)
      [] op.kind = "cast" -> visitExprCast(c, op)
      [] op.kind = "multibit_mux" -> visitExprMultibitMux(c, op)
      [] op.kind = "bitcast" -> visitExprBitCast(c, op)
      [] op.kind = "subaccess" -> visitExprSubaccess(c, op)
      [] op.kind = "connect" -> visitStmtConnect(c, op)
      [] op.kind = "strictconnect" -> visitStmtStrictConnect(c, op)
      [] op.kind = "mem" -> visitDeclMem(c, op)
      [] op.kind = "instance" -> visitDeclInstance(c, op)
      [] OTHER -> [c |-> c, remove |-> FALSE]

VisitorKinds ==
    {"wire", "reg", "regreset", "node", "invalid", "mux", "cast", "multibit_mux",
     "bitcast", "subaccess", "connect", "strictconnect", "mem", "instance", "when"}

stopOnError(c) == IF Aborted(c) THEN [c EXCEPT !.phase = "fatal"] ELSE c

\* One iteration of the loop over the arguments; a fatal error stops the
\* pass.
argStep(c) == stopOnError(lowerArgStep(c))

\* One step of the lowering of a module.
lowerStep(c) ==
    IF c.phase = "body"
      THEN IF CurFrame(c).cur = 0 THEN blockDone(c)
           ELSE IF CurOp(c).kind = "when" THEN enterWhen(c)
           ELSE afterVisit(c, dispatchVisitor(AtCur(c), CurOp(c)))
    ELSE IF c.phase = "args"
      THEN IF c.argIndex < Len(c.newArgs)
             THEN argStep(c)
             ELSE finishModule(c)
    ELSE c

RECURSIVE runLowering(_)
runLowering(c) == IF c.phase \in {"done", "fatal"} THEN c ELSE runLowering(lowerStep(c))

\* tl.lowerModule(op)
lowerModule(m, preserveAggregate, preservePublicTypes, asserts, symTbl) ==
    runLowering(startLowering(m, preserveAggregate, preservePublicTypes, asserts, symTbl))

(***************************************************************************)
(* Input modules.  A module is [name, isExt, isPublic, ports, ops, blocks, *)
(* next]; the ports take the ids 1..P, the operations of the body the ids  *)
(* after them.                                                             *)
(***************************************************************************)
Port(name, type, dir, sym, annos) ==
    [id |-> 0, name |-> name, type |-> type, dir |-> dir, sym |-> sym, annos |-> annos]

\* The module with the given ports and the given operations, ops[i] getting
\* the id P + i, and the given blocks of operation ids.
MkModule(name, isExt, isPublic, ports, ops, blocks) ==
    LET P == Len(ports)
        args == [i \in 1..P |-> [MkOp("arg", <<>>, <<ports[i].type>>) EXCEPT !.id = i]]
        body == [i \in (P + 1)..(P + Len(ops)) |-> [ops[i - P] EXCEPT !.id = i]]
    IN  [name |-> name, isExt |-> isExt, isPublic |-> isPublic,
         ports |-> [i \in 1..P |-> [ports[i] EXCEPT !.id = i]],
         ops |-> args @@ body,
         blocks |-> blocks,
         next |-> P + Len(ops) + 1]

\* A module whose body is one block holding ops in order.
FlatModule(name, ports, ops) ==
    MkModule(name, FALSE, TRUE, ports, ops,
             (0 :> [i \in 1..Len(ops) |-> Len(ports) + i]))

Wire(name, type) == [MkOp("wire", <<>>, <<type>>) EXCEPT !.name = name]
Node(name, input, type) == [MkOp("node", <<Val(input)>>, <<type>>) EXCEPT !.name = name]
Sub(kind, input, index, type) == [MkOp(kind, <<Val(input)>>, <<type>>) EXCEPT !.idx = index]
Const(value, w) == [MkOp("constant", <<>>, <<UIntT(w)>>) EXCEPT !.idx = value]

U1 == UIntT(1)
U2 == UIntT(2)
BAB == BundleT(<<Elt("a", FALSE, U1), Elt("b", FALSE, U2)>>)
BFlip == BundleT(<<Elt("a", TRUE, U1), Elt("b", FALSE, U1)>>)
BEmpty == BundleT(<<>>)
BNested ==
    BundleT(<<Elt("a", TRUE, BundleT(<<Elt("x", FALSE, U1), Elt("y", TRUE, U2)>>)),
              Elt("b", FALSE, VectorT(U1, 2))>>)
VecOf(n) == VectorT(U1, n)
VecB == VectorT(BFlip, 2)
\* A bundle with an empty field between two fields.
BZeroMid == BundleT(<<Elt("a", FALSE, U1), Elt("z", FALSE, BEmpty), Elt("b", FALSE, U2)>>)

\* The aggregate types the inputs are built from.
AggTypes == {BAB, BFlip, BEmpty, BNested, VecB} \cup {VecOf(n) : n \in 0..MaxVecLen}

\* wire w : T; wire v : T; w <= v
ConnectModule(kind, T) ==
    FlatModule("Top", <<>>,
               <<Wire("w", T), Wire("v", T), MkOp(kind, <<Val(1), Val(2)>>, <<>>)>>)

\* The same between two ports: q <= p.
PortConnectModule(T) ==
    FlatModule("Top", <<Port("p", T, "in", "", <<>>), Port("q", T, "out", "", <<>>)>>,
               <<MkOp("connect", <<Val(2), Val(1)>>, <<>>)>>)

\* An external module with the ports p and q.
ExtModule(T) ==
    MkModule("Ext", TRUE, TRUE,
             <<Port("p", T, "in", "", <<>>), Port("q", T, "out", "", <<>>)>>,
             <<>>, (0 :> <<>>))

\* when c : w <= v else : w <= u
WhenModule(T) ==
    MkModule("Top", FALSE, TRUE, <<>>,
             <<Wire("c", U1), Wire("w", T), Wire("v", T), Wire("u", T),
               [MkOp("when", <<Val(1)>>, <<>>) EXCEPT !.hasElse = TRUE],
               MkOp("connect", <<Val(2), Val(3)>>, <<>>),
               MkOp("connect", <<Val(2), Val(4)>>, <<>>)>>,
             (0 :> <<1, 2, 3, 4, 5>>) @@ (5 :> <<6>>) @@ (-5 :> <<7>>))

\* The element types of the vectors that are accessed dynamically, with the
\* static accessors (field indices) that lead from an element to the value
\* written or read.
DynShapes ==
    {[elt |-> U1, path |-> <<>>, leaf |-> U1],
     [elt |-> BAB, path |-> <<1>>, leaf |-> U2],
     [elt |-> BAB, path |-> <<>>, leaf |-> BAB],
     [elt |-> BNested, path |-> <<1, 0>>, leaf |-> U1]}

\* The accessors of sh.path over the value base: operations with the ids
\* from first on.
RECURSIVE PathOps(_, _, _, _)
PathOps(t, path, base, first) ==
    IF path = <<>> THEN <<>>
    ELSE <<Sub(IF IsBundle(t) THEN "subfield" ELSE "subindex", base, Head(path),
               getElementType(t, Head(path)))>>
         \o PathOps(getElementType(t, Head(path)), Tail(path), first, first + 1)

\* The constant index of the inputs: the largest that the width wi can hold
\* and that is an element of a vector of n elements.
ConstIndex(n, wi) ==
    IF n = 0 THEN 0 ELSE IF Pow2(wi) - 1 < n - 1 THEN Pow2(wi) - 1 ELSE n - 1

\* wire v : sh.elt[n]; wire i : UInt<wi>; wire s; v[i].path <= s
\* (v[c].path <= s for a constant c when isConst).
DynWriteModule(sh, n, wi, isConst) ==
    FlatModule("Top", <<>>,
               <<Wire("v", VectorT(sh.elt, n)),
                 IF isConst THEN Const(ConstIndex(n, wi), wi) ELSE Wire("i", UIntT(wi)),
                 Wire("s", sh.leaf),
                 MkOp("subaccess", <<Val(1), Val(2)>>, <<sh.elt>>)>>
               \o PathOps(sh.elt, sh.path, 4, 5)
               \o <<MkOp("connect", <<Val(4 + Len(sh.path)), Val(3)>>, <<>>)>>)

\* wire v : sh.elt[n]; wire i : UInt<wi>; node r = v[i].path
DynReadModule(sh, n, wi, isConst) ==
    FlatModule("Top", <<>>,
               <<Wire("v", VectorT(sh.elt, n)),
                 IF isConst THEN Const(ConstIndex(n, wi), wi) ELSE Wire("i", UIntT(wi)),
                 MkOp("subaccess", <<Val(1), Val(2)>>, <<sh.elt>>)>>
               \o PathOps(sh.elt, sh.path, 3, 4)
               \o <<Node("r", 3 + Len(sh.path), sh.leaf)>>)

\* A write through two dynamic accesses: v[i][j] <= s.
DynWrite2Module(n) ==
    FlatModule("Top", <<>>,
               <<Wire("v", VectorT(VecOf(2), n)), Wire("i", U1), Wire("j", U1),
                 Wire("s", U1),
                 MkOp("subaccess", <<Val(1), Val(2)>>, <<VecOf(2)>>),
                 MkOp("subaccess", <<Val(5), Val(3)>>, <<U1>>),
                 MkOp("connect", <<Val(6), Val(4)>>, <<>>)>>)

ProducerKinds ==
    {"wire", "reg", "regreset", "node", "invalid", "mux", "cast", "multibit_mux"}

\* The operations that define the operands of a producer of kind and type T.
Prelude(kind, T) ==
    CASE kind = "reg" -> <<Wire("clk", ClockT)>>
      [] kind = "regreset" -> <<Wire("clk", ClockT), Wire("rst", U1), Wire("init", T)>>
      [] kind \in {"node", "cast"} -> <<Wire("x", T)>>
      [] kind \in {"mux", "multibit_mux"} -> <<Wire("sel", U1), Wire("x", T), Wire("y", T)>>
      [] kind = "bitcast" -> <<Wire("x", SIntT(getBitWidth(T)))>>
      [] kind = "bitcastAgg" -> <<Wire("x", BundleT(<<Elt("h", FALSE, UIntT(getBitWidth(T))),
                                                      Elt("z", FALSE, BEmpty)>>))>>
      [] OTHER -> <<>>

\* The producer of kind and type T over the operations of Prelude.
Producer(kind, T) ==
    LET named == [MkOp(IF kind = "bitcastAgg" THEN "bitcast" ELSE kind,
                       [i \in 1..Len(Prelude(kind, T)) |-> Val(i)], <<T>>)
                  EXCEPT !.name = "p"]
    IN  IF kind \in {"wire", "reg", "regreset", "node"} THEN named
        ELSE [named EXCEPT !.name = ""]

\* The producer, one accessor per immediate field of T and a second accessor
\* of the last field, and one node per accessor.
ProducerModule(kind, T) ==
    LET pre == Prelude(kind, T)
        P == Len(pre) + 1
        k == getNumElements(T)
        idxs == [j \in 1..k |-> j - 1] \o (IF k > 0 THEN <<k - 1>> ELSE <<>>)
        A == Len(idxs)
    IN  FlatModule("Top", <<>>,
                   pre \o <<Producer(kind, T)>>
                   \o [j \in 1..A |->
                         Sub(IF IsBundle(T) THEN "subfield" ELSE "subindex", P, idxs[j],
                             getElementType(T, idxs[j]))]
                   \o [j \in 1..A |->
                         Node("n" \o IntStr(j), P + j, getElementType(T, idxs[j]))])

\* A ground producer with a node that uses it.
GroundProducerModule(kind) ==
    FlatModule("Top", <<>>,
               Prelude(kind, U2) \o <<Producer(kind, U2)>>
               \o <<Node("n", Len(Prelude(kind, U2)) + 1, U2)>>)

\* module M(in g : UInt<1>, in p : T, out h : UInt<2>, out q : T) with the
\* body q <= p, or without a body.
PortListModule(T, isExt, isPublic) ==
    MkModule("M", isExt, isPublic,
             <<Port("g", U1, "in", "", <<>>), Port("p", T, "in", "", <<>>),
               Port("h", U2, "out", "", <<>>), Port("q", T, "out", "", <<>>)>>,
             IF isExt THEN <<>> ELSE <<MkOp("connect", <<Val(4), Val(2)>>, <<>>)>>,
             (0 :> IF isExt THEN <<>> ELSE <<5>>))

\* A bundle whose first field is a bundle.
BMixed ==
    BundleT(<<Elt("a", FALSE, BundleT(<<Elt("x", FALSE, U1), Elt("y", FALSE, U1)>>)),
              Elt("b", FALSE, U2)>>)

\* A bundle whose first field is empty.
BZeroFirst == BundleT(<<Elt("z", FALSE, BEmpty), Elt("b", FALSE, U2)>>)

\* module M(in g : UInt<1>, in a @a : T, out h : UInt<2>) without
\* operations, or without a body.
PortSymModule(T, isExt) ==
    MkModule("M", isExt, TRUE,
             <<Port("g", U1, "in", "", <<>>), Port("a", T, "in", "a", <<>>),
               Port("h", U2, "out", "", <<>>)>>,
             <<>>, (0 :> <<>>))

WithSym(op, sym, annos) == [op EXCEPT !.sym = sym, !.annos = annos]

\* wire w @w : T; wire g @sym : UInt<1>
TwoSymbolsModule(T, sym) ==
    FlatModule("Top", <<>>,
               <<WithSym(Wire("w", T), "w", <<>>), WithSym(Wire("g", U1), sym, <<>>)>>)

\* A bundle with a signed field and a vector.
BSigned == BundleT(<<Elt("s", FALSE, SIntT(2)), Elt("v", FALSE, VecOf(2))>>)

\* wire x : T; wire y : T; b = bitcast x to UInt; r = bitcast b to T; y <= r
RoundTripModule(T) ==
    FlatModule("Top", <<>>,
               <<Wire("x", T), Wire("y", T),
                 MkOp("bitcast", <<Val(1)>>, <<UIntT(getBitWidth(T))>>),
                 MkOp("bitcast", <<Val(3)>>, <<T>>),
                 MkOp("connect", <<Val(2), Val(4)>>, <<>>)>>)

MemPort(name, kind) == [name |-> name, kind |-> kind, annos |-> <<>>]

\* mem m with a read port r and a write port w of data type T;
\* m.r.addr <= a; node d = m.r.data; m.w.data <= x
MemModule(T, sym) ==
    LET rT == getTypeForPort(2, T, "read")
        wT == getTypeForPort(2, T, "write")
    IN  FlatModule("Top", <<>>,
                   <<Wire("a", U1), Wire("x", T),
                     [MkOp("mem", <<>>, <<rT, wT>>) EXCEPT
                        !.name = "m", !.sym = sym, !.data = T, !.depth = 2,
                        !.ports = <<MemPort("r", "read"), MemPort("w", "write")>>],
                     Sub("subfield", 3, 0, U1),
                     MkOp("connect", <<Val(4), Val(1)>>, <<>>),
                     Sub("subfield", 3, 3, T),
                     Node("d", 6, T),
                     [MkOp("subfield", <<<<3, 1>>>>, <<T>>) EXCEPT !.idx = 3],
                     MkOp("connect", <<Val(8), Val(2)>>, <<>>)>>)

\* mem m with a read-write port rw of data type T;
\* m.rw.wdata <= x; node d = m.rw.rdata
MemRWModule(T) ==
    FlatModule("Top", <<>>,
               <<Wire("x", T),
                 [MkOp("mem", <<>>, <<getTypeForPort(2, T, "readwrite")>>) EXCEPT
                    !.name = "m", !.data = T, !.depth = 2,
                    !.ports = <<MemPort("rw", "readwrite")>>],
                 Sub("subfield", 2, 5, T),
                 MkOp("connect", <<Val(3), Val(1)>>, <<>>),
                 Sub("subfield", 2, 3, T),
                 Node("d", 5, T)>>)

InstPort(name, dir) == [name |-> name, dir |-> dir, annos |-> <<>>]

\* inst i of Child(in a : T, out b : UInt<1>); i.a <= x; node y = i.b
InstanceModule(T, sym) ==
    FlatModule("Top", <<>>,
               <<Wire("x", T),
                 [MkOp("instance", <<>>, <<T, U1>>) EXCEPT
                    !.name = "i", !.sym = sym, !.target = "Child",
                    !.ports = <<InstPort("a", "in"), InstPort("b", "out")>>],
                 MkOp("connect", <<Val(2), Val(1)>>, <<>>),
                 [MkOp("node", <<<<2, 1>>>>, <<U1>>) EXCEPT !.name = "y"]>>)

\* inst i of Child(in a : T, out b : UInt<1>); node n = i.a; node y = i.b
InstanceNodeModule(T, sym) ==
    FlatModule("Top", <<>>,
               <<[MkOp("instance", <<>>, <<T, U1>>) EXCEPT
                    !.name = "i", !.sym = sym, !.target = "Child",
                    !.ports = <<InstPort("a", "in"), InstPort("b", "out")>>],
                 [MkOp("node", <<<<1, 0>>>>, <<T>>) EXCEPT !.name = "n"],
                 [MkOp("node", <<<<1, 1>>>>, <<U1>>) EXCEPT !.name = "y"]>>)

\* The symbol table of the inputs: the module that the instances refer to.
ChildTable == ("Child" :> [isExt |-> FALSE, isPublic |-> FALSE])

\* The module the instances refer to as a private module, a public module
\* and an external module.
ChildTables ==
    {ChildTable,
     ("Child" :> [isExt |-> FALSE, isPublic |-> TRUE]),
     ("Child" :> [isExt |-> TRUE, isPublic |-> FALSE])}

\* The symbol table that the lowering of the input inp looks modules up in.
InputTable(inp) == IF inp.scen = "instance" THEN inp.tbl ELSE ChildTable

\* The modules that a single lowering is run on.
\* The annotations of the inputs: a do-not-touch annotation, a signal driver
\* annotation and an annotation X of no special class, local or not, each
\* on the whole declaration (no "circt.fieldID"), or on the field ID 0, 1,
\* 2 or 5; and a signal driver annotation that has a "fieldID" member.
AnnoFieldIDs == {-1, 0, 1, 2, 5}
PriorSignalDriver == [Anno(SignalDriverClass, -1, "") EXCEPT !.sfid = 4]
AnnoSet ==
    {Anno(DontTouchClass, f, "") : f \in AnnoFieldIDs}
    \cup {Anno(SignalDriverClass, f, "") : f \in AnnoFieldIDs}
    \cup {PriorSignalDriver}
    \cup {Anno("X", f, nl) : f \in AnnoFieldIDs, nl \in {"", "P"}}

\* The annotation lists of the inputs: one annotation or two.
AnnoLists == {<<a>> : a \in AnnoSet} \cup {<<a, b>> : a, b \in AnnoSet}

\* wire w : T with the annotations annos
AnnoModule(T, annos) ==
    FlatModule("Top", <<>>, <<[Wire("w", T) EXCEPT !.annos = annos]>>)

ModuleInputs ==
    {[scen |-> "connect", kind |-> k, T |-> T, conns |-> {<<"w", "v">>},
      m |-> ConnectModule(k, T)] :
        k \in {"connect", "strictconnect"}, T \in AggTypes}
    \cup {[scen |-> "ports", T |-> T, conns |-> {<<"q", "p">>},
           m |-> PortConnectModule(T)] : T \in AggTypes}
    \cup {[scen |-> "ext", T |-> T, m |-> ExtModule(T)] : T \in AggTypes}
    \cup {[scen |-> "portlist", T |-> T, m |-> PortListModule(T, isExt, isPublic)] :
             T \in AggTypes, isExt \in BOOLEAN, isPublic \in BOOLEAN}
    \cup {[scen |-> "when", T |-> T, conns |-> {<<"w", "v">>, <<"w", "u">>},
           m |-> WhenModule(T)] : T \in {BAB, BNested}}
    \cup {[scen |-> "dynwrite", sh |-> sh, n |-> n, wi |-> wi, isConst |-> b,
           m |-> DynWriteModule(sh, n, wi, b)] :
             sh \in DynShapes, n \in 0..MaxVecLen, wi \in 0..MaxIdxWidth, b \in BOOLEAN}
    \cup {[scen |-> "dynread", sh |-> sh, n |-> n, wi |-> wi, isConst |-> b,
           m |-> DynReadModule(sh, n, wi, b)] :
             sh \in DynShapes, n \in 0..MaxVecLen, wi \in 0..MaxIdxWidth, b \in BOOLEAN}
    \cup {[scen |-> "dynwrite2", n |-> n, m |-> DynWrite2Module(n)] : n \in 1..2}
    \cup {[scen |-> "producer", kind |-> k, T |-> T, m |-> ProducerModule(k, T)] :
             k \in ProducerKinds \cup {"bitcast", "bitcastAgg"}, T \in AggTypes}
    \cup {[scen |-> "producer", kind |-> k, T |-> BZeroMid, m |-> ProducerModule(k, BZeroMid)] :
             k \in {"bitcast", "bitcastAgg"}}
    \cup {[scen |-> "ground", kind |-> k, T |-> U2, m |-> GroundProducerModule(k)] :
             k \in ProducerKinds \cup {"bitcast", "bitcastAgg"}}
    \cup {[scen |-> "mem", T |-> T, m |-> MemModule(T, sym)] :
             T \in {U2, BAB, BNested, VecOf(2)}, sym \in {"", "m"}}
    \cup {[scen |-> "mem", T |-> T, m |-> MemRWModule(T)] : T \in {U2, BAB, VecOf(2)}}
    \cup {[scen |-> "instance", T |-> T, user |-> "connect", tbl |-> tbl,
           m |-> InstanceModule(T, sym)] :
             T \in AggTypes \cup {U2}, sym \in {"", "i"}, tbl \in ChildTables}
    \cup {[scen |-> "instance", T |-> T, user |-> "node", tbl |-> tbl,
           m |-> InstanceNodeModule(T, "")] :
             T \in AggTypes \cup {U2}, tbl \in ChildTables}
    \cup {[scen |-> "annos", T |-> T, annos |-> annos, m |-> AnnoModule(T, annos)] :
             T \in {BAB, BNested}, annos \in AnnoLists}
    \cup {[scen |-> "portsym", T |-> T, m |-> PortSymModule(T, isExt)] :
             T \in {U2, BAB, BMixed, BNested, BZeroFirst}, isExt \in BOOLEAN}
    \cup {[scen |-> "symbols", T |-> T, m |-> TwoSymbolsModule(T, sym)] :
             T \in {BAB, BNested}, sym \in {"g", "w_a", "w_a_x"}}
    \cup {[scen |-> "roundtrip", T |-> T, m |-> RoundTripModule(T)] :
             T \in {BAB, BMixed, BZeroMid, BZeroFirst, BSigned, VecOf(2), VecOf(0)}}

(***************************************************************************)
(* The lowering of one module, one visitor call at a time.                 *)
(***************************************************************************)
\* low and input are the state of the lowering of one module; the other
\* variables are the state of the pass driver: the circuit (modules and
\* hierarchical paths), the tasks of parallelForEach, nlaAppendLock, the
\* shared innerRefRenames, the NLATable, the SymbolTable and the locals of
\* the path update.
VARIABLES low, input, circuit, task, lock, innerRefRenames, nlaTable, symbolTable, upd
passVars == <<circuit, task, lock, innerRefRenames, nlaTable, symbolTable, upd>>
vars == <<low, input, circuit, task, lock, innerRefRenames, nlaTable, symbolTable, upd>>

\* The driver does not run while a single lowering is looked at.
NoPass ==
    /\ circuit = [mods |-> <<>>, paths |-> <<>>, nextPath |-> 1]
    /\ task = <<>>
    /\ lock = ""
    /\ innerRefRenames = <<>>
    /\ nlaTable = <<>>
    /\ symbolTable = <<>>
    /\ upd = [phase |-> "off"]



InitModule ==
    /\ input \in ModuleInputs
    /\ \E preserveAggregate \in BOOLEAN, preservePublicTypes \in BOOLEAN, asserts \in BOOLEAN :
           low = startLowering(input.m, preserveAggregate, preservePublicTypes, asserts,
                                InputTable(input))
    /\ NoPass

\* One iteration of lowerBlock on an operation of the kind: r is what the
\* visitor of the kind gives.
Visit(kind, r) ==
    /\ low.phase = "body"
    /\ CurFrame(low).cur # 0
    /\ CurOp(low).kind = kind
    /\ low' = afterVisit(low, r)
    /\ UNCHANGED <<input, passVars>>

VisitWire == Visit("wire", visitDeclWire(AtCur(low), CurOp(low)))
VisitReg == Visit("reg", visitDeclReg(AtCur(low), CurOp(low)))
VisitRegReset == Visit("regreset", visitDeclRegReset(AtCur(low), CurOp(low)))
VisitNode == Visit("node", visitDeclNode(AtCur(low), CurOp(low)))
VisitInvalidValue == Visit("invalid", visitExprInvalidValue(AtCur(low), CurOp(low)))
VisitMux == Visit("mux", visitExprMux(AtCur(low), CurOp(low)))
VisitCast == Visit("cast", visitExprCast(AtCur(low), CurOp(low)))
VisitMultibitMux == Visit("multibit_mux", visitExprMultibitMux(AtCur(low), CurOp(low)))
VisitBitCast == Visit("bitcast", visitExprBitCast(AtCur(low), CurOp(low)))
VisitSubaccess == Visit("subaccess", visitExprSubaccess(AtCur(low), CurOp(low)))
VisitConnect == Visit("connect", visitStmtConnect(AtCur(low), CurOp(low)))
VisitStrictConnect == Visit("strictconnect", visitStmtStrictConnect(AtCur(low), CurOp(low)))
VisitMem == Visit("mem", visitDeclMem(AtCur(low), CurOp(low)))
VisitInstance == Visit("instance", visitDeclInstance(AtCur(low), CurOp(low)))

\* An operation that has no visitor.
VisitUnhandled ==
    /\ low.phase = "body"
    /\ CurFrame(low).cur # 0
    /\ CurOp(low).kind \notin VisitorKinds
    /\ low' = afterVisit(low, [c |-> AtCur(low), remove |-> FALSE])
    /\ UNCHANGED <<input, passVars>>

VisitWhen ==
    /\ low.phase = "body"
    /\ CurFrame(low).cur # 0
    /\ CurOp(low).kind = "when"
    /\ low' = enterWhen(low)
    /\ UNCHANGED <<input, passVars>>

BlockDone ==
    /\ low.phase = "body"
    /\ CurFrame(low).cur = 0
    /\ low' = blockDone(low)
    /\ UNCHANGED <<input, passVars>>

LowerArg ==
    /\ low.phase = "args"
    /\ low.argIndex < Len(low.newArgs)
    /\ low' = argStep(low)
    /\ UNCHANGED <<input, passVars>>

FinishModule ==
    /\ low.phase = "args"
    /\ low.argIndex >= Len(low.newArgs)
    /\ low' = finishModule(low)
    /\ UNCHANGED <<input, passVars>>

NextModule ==
    \/ VisitWire \/ VisitReg \/ VisitRegReset \/ VisitNode \/ VisitInvalidValue
    \/ VisitMux \/ VisitCast \/ VisitMultibitMux \/ VisitBitCast \/ VisitSubaccess
    \/ VisitConnect \/ VisitStrictConnect \/ VisitMem \/ VisitInstance
    \/ VisitUnhandled \/ VisitWhen \/ BlockDone \/ LowerArg \/ FinishModule

SpecModule == InitModule /\ [][NextModule]_vars

\* lowerModule is one sequential call that goes on as long as it has a step
\* to take: weak fairness of NextModule, which is enabled exactly in the
\* phases body and args, where each of its steps changes low.  (The
\* enabling condition is written out.)
StepsLeft == low.phase \in {"body", "args"}
SpecModuleFair ==
    SpecModule /\ ([]<>(~StepsLeft) \/ []<><<NextModule>>_vars)

(***************************************************************************)
(* The pass driver, runOnOperation.  The circuit holds the modules by name *)
(* and the hierarchical path operations in the order of the circuit's      *)
(* body; a path operation is [id, name, namepath], its id the identity of  *)
(* the operation.  An element of a namepath is <<module, inner symbol>>,   *)
(* the symbol "" for an element that names a module only.                  *)
(***************************************************************************)
HierPathOp(id, name, namepath) == [id |-> id, name |-> name, namepath |-> namepath]

PathById(c, id) == CHOOSE p \in Range(c.paths) : p.id = id

\* NLATable::lookup(module): the paths that have the module in their
\* namepath.
nlaLookup(tbl, mod) == IF mod \in DOMAIN tbl THEN tbl[mod] ELSE <<>>

\* NLATable::addNLA: the path is appended under the module of each element
\* of its namepath.
addNLA(tbl, path) ==
    [mod \in DOMAIN tbl \cup {r[1] : r \in Range(path.namepath)} |->
        nlaLookup(tbl, mod)
        \o [k \in 1..Cardinality({i \in DOMAIN path.namepath : path.namepath[i][1] = mod})
              |-> path.id]]

RECURSIVE addNLAs(_, _)
\* The NLATable of a circuit.
addNLAs(tbl, paths) ==
    IF paths = <<>> THEN tbl ELSE addNLAs(addNLA(tbl, Head(paths)), Tail(paths))

\* NLATable::erase: the path leaves the list of every module.
eraseNLA(tbl, path) ==
    [mod \in DOMAIN tbl |-> SelectSeq(tbl[mod], LAMBDA x : x # path.id)]

\* The SymbolTable of the circuit: the operation behind each symbol name,
\* 0 for a module and the id of a path operation.
SymbolTableOf(c) ==
    [n \in DOMAIN c.mods \cup {p.name : p \in Range(c.paths)} |->
        IF n \in DOMAIN c.mods THEN 0
        ELSE (CHOOSE p \in Range(c.paths) : p.name = n).id]

\* The modules as the lowering of an instance looks them up.
ModuleTable(c) ==
    [n \in DOMAIN c.mods |-> [isExt |-> c.mods[n].isExt, isPublic |-> c.mods[n].isPublic]]

\* CircuitNamespace: the names of the symbols of the circuit.
CircuitNamespace(c) == DOMAIN c.mods \cup {p.name : p \in Range(c.paths)}

RECURSIVE newNameFrom(_, _, _)
newNameFrom(ns, base, n) ==
    IF (base \o "_" \o IntStr(n)) \notin ns THEN base \o "_" \o IntStr(n)
    ELSE newNameFrom(ns, base, n + 1)

\* Namespace::newName: the name itself when it is free, else the name with
\* the first free number appended.
newName(ns, base) == IF base \notin ns THEN base ELSE newNameFrom(ns, base, 0)

\* SymbolTable::insert: the name of the operation is made unique in the
\* table when it is taken; gives the name the operation ends with.
insertedName(tbl, name) == newName(DOMAIN tbl, name)

\* The symbol a target carries: getInnerSymName(op) or getPortSymbolAttr.
targetSym(m, target) ==
    IF target.kind = "op" THEN m.ops[target.ref].sym ELSE m.ports[target.ref + 1].sym

targetAnnos(m, target) ==
    IF target.kind = "op" THEN m.ops[target.ref].annos ELSE m.ports[target.ref + 1].annos

\* removeAnnotations(updateNLASymbol) then addAnnotations(newAnnotations):
\* the annotations that name oldSym leave their place and come back at the
\* end, naming newSym.
updateNLASymbol(annos, oldSym, newSym) ==
    SelectSeq(annos, LAMBDA a : a.nonlocal # oldSym)
    \o [k \in DOMAIN SelectSeq(annos, LAMBDA a : a.nonlocal = oldSym) |->
          [SelectSeq(annos, LAMBDA a : a.nonlocal = oldSym)[k] EXCEPT !.nonlocal = newSym]]

\* applyToOperation / applyToPort
setTargetAnnos(m, target, annos) ==
    IF target.kind = "op" THEN [m EXCEPT !.ops[target.ref].annos = annos]
    ELSE [m EXCEPT !.ports[target.ref + 1].annos = annos]

\* Every path takes a new name of the namespace.
newSymFresh(ns, oldSym, first) == newName(ns, oldSym)

\* The symbol of the path made for a target: the first path takes the symbol
\* of the old path, a later one a new name of the namespace.
newSymFor(ns, oldSym, first) == IF first THEN oldSym ELSE newName(ns, oldSym)

\* The body of the loop over newRefs for one target of the path that ends
\* at <<module, old symbol>>; front is the namepath without its last
\* element.  st = [c, nla, syms, ns, first, pos]: the circuit, the NLATable,
\* the SymbolTable, the namespace, whether oldSym is still unset and the
\* number of path operations in front of the builder's insertion point.
splitTarget(st, path, front, module, target) ==
    LET oldSym == path.name
        newSym == newSymFor(st.ns, oldSym, st.first)
        paths0 == IF st.first THEN SelectSeq(st.c.paths, LAMBDA p : p.id # path.id)
                  ELSE st.c.paths
        nla0 == IF st.first THEN eraseNLA(st.nla, path) ELSE st.nla
        syms0 == IF st.first THEN Restrict(st.syms, DOMAIN st.syms \ {oldSym})
                 ELSE st.syms
        m == st.c.mods[module]
        id == st.c.nextPath
        name == insertedName(syms0, newSym)
        newPath == HierPathOp(id, name, Append(front, <<module, targetSym(m, target)>>))
    IN  [c |-> [mods |-> [st.c.mods EXCEPT ![module] =
                            setTargetAnnos(m, target,
                                updateNLASymbol(targetAnnos(m, target), oldSym, newSym))],
                paths |-> InsertAt(paths0, st.pos, newPath),
                nextPath |-> id + 1],
         nla |-> addNLA(nla0, newPath),
         syms |-> (name :> id) @@ syms0,
         ns |-> st.ns \cup {newSym},
         first |-> FALSE,
         pos |-> st.pos + 1]

RECURSIVE splitTargets(_, _, _, _, _)
splitTargets(st, path, front, module, newRefs) ==
    IF newRefs = <<>> THEN st
    ELSE splitTargets(splitTarget(st, path, front, module, Head(newRefs)),
                      path, front, module, Tail(newRefs))

\* The body of the loop over the paths for a path that ends at oldRef: the
\* path is split into one path for each of newRefs.
splitPath(c, nla, syms, ns, path, oldRef, newRefs) ==
    splitTargets([c |-> c, nla |-> nla, syms |-> syms, ns |-> ns, first |-> TRUE,
                  pos |-> (CHOOSE i \in DOMAIN c.paths : c.paths[i].id = path.id) - 1],
                 path, SubSeq(path.namepath, 1, Len(path.namepath) - 1),
                 oldRef[1], newRefs)

(***************************************************************************)
(* Input circuits.                                                         *)
(***************************************************************************)
MkCircuit(mods, paths) ==
    [mods |-> mods,
     paths |-> [i \in DOMAIN paths |-> HierPathOp(i, paths[i][1], paths[i][2])],
     nextPath |-> Len(paths) + 1]

\* Top: wire w @w : T, annotated under the paths P and P2, and a ground
\* wire g @g under Q; an external module beside it.  The path P_0 ends at
\* the module.
WireCircuit(T, fieldID) ==
    MkCircuit(
        ("Top" :> FlatModule("Top", <<>>,
                     <<WithSym(Wire("w", T), "w",
                               <<Anno("X", 0, "P"), Anno("Y", fieldID, "P2"),
                                 Anno("Z", 0, "")>>),
                       WithSym(Wire("g", U1), "g", <<Anno("X", 0, "Q")>>)>>))
        @@ ("Ext" :> ExtModule(BAB)),
        << <<"P", << <<"Top", "w">> >> >>, <<"Q", << <<"Top", "g">> >> >>,
           <<"P2", << <<"Top", "w">> >> >>, <<"P_0", << <<"Top", "">> >> >> >>)

\* Top: an instance i @i of Child; Child (or the external module Child) has
\* the port a @a : T, annotated under P, and holds the wire r @r : T,
\* annotated under R.
ChildModule(T, isExt, fieldID) ==
    MkModule("Child", isExt, FALSE,
             <<Port("a", T, "in", "a", <<Anno("X", fieldID, "P")>>),
               Port("b", U1, "out", "", <<>>)>>,
             IF isExt THEN <<>> ELSE <<WithSym(Wire("r", T), "r", <<Anno("X", 0, "R")>>)>>,
             (0 :> IF isExt THEN <<>> ELSE <<3>>))

\* The wire x of Top carries the symbol x and is annotated under S.
InstanceCircuit(T, isExt, fieldID) ==
    MkCircuit(
        ("Top" :> [InstanceModule(T, "i") EXCEPT
                     !.ops[1] = WithSym(@, "x", <<Anno("X", 0, "S")>>)])
        @@ ("Child" :> ChildModule(T, isExt, fieldID)),
        << <<"P", << <<"Top", "i">>, <<"Child", "a">> >> >>,
           <<"S", << <<"Top", "x">> >> >>,
           <<"I", << <<"Top", "i">> >> >> >>
        \o IF isExt THEN << >>
           ELSE << <<"R", << <<"Top", "i">>, <<"Child", "r">> >> >> >>)

\* Top: the memory m @m with the data type T, and the path P that ends at
\* it.
MemCircuit(T) ==
    MkCircuit(("Top" :> MemModule(T, "m")) @@ ("Ext" :> ExtModule(U1)),
              << <<"P", << <<"Top", "m">> >> >> >>)

\* Top: inst i of Child(in clk : Clock).  Child: reg r : {a, b} with a
\* non-local DontTouchAnnotation on the field b (field ID 2) under the path N,
\* which ends at the register when it has the symbol sym and at Child else.
RegCircuit(sym) ==
    MkCircuit(
        ("Top" :> FlatModule("Top", <<>>,
                     <<[MkOp("instance", <<>>, <<ClockT>>) EXCEPT
                          !.name = "i", !.sym = "i", !.target = "Child",
                          !.ports = <<InstPort("clk", "in")>> ]>>))
        @@ ("Child" :> MkModule("Child", FALSE, FALSE,
                          <<Port("clk", ClockT, "in", "", <<>>)>>,
                          <<WithSym([MkOp("reg", <<Val(1)>>, <<BAB>>) EXCEPT !.name = "r"],
                                    sym, <<Anno(DontTouchClass, 2, "N")>>)>>,
                          (0 :> <<2>>))),
        << <<"N", << <<"Top", "i">>, <<"Child", sym>> >> >> >>)

CircuitInputs ==
    {[name |-> "wire", T |-> T, c |-> WireCircuit(T, f)] :
        T \in {U1, BAB, BMixed, VecOf(2)}, f \in {0, 1}}
    \cup {[name |-> "instance", T |-> T, c |-> InstanceCircuit(T, e, f)] :
        T \in {U1, BAB, BMixed}, e \in BOOLEAN, f \in {0, 2}}
    \cup {[name |-> "public", T |-> T,
           c |-> [InstanceCircuit(T, FALSE, 0) EXCEPT !.mods["Child"].isPublic = TRUE]] :
        T \in {BAB, BNested}}
    \cup {[name |-> "mem", T |-> T, c |-> MemCircuit(T)] : T \in {U2, BAB}}
    \cup {[name |-> "reg", T |-> BAB, sym |-> sym, c |-> RegCircuit(sym)] : sym \in {"", "r"}}

(***************************************************************************)
(* runOnOperation as a state machine.  A task of parallelForEach is at     *)
(* "lower" (before tl.lowerModule), "lock" (before the lock_guard is       *)
(* constructed), "merge" (before the loop of inserts), "unlock" (before    *)
(* the lock_guard is destroyed) or "done"; "crashed" is a task that met    *)
(* llvm_unreachable.  The path update is "idle" until it starts, then in   *)
(* its "loop", then "finished"; upd.pending holds the pairs of             *)
(* innerRefRenames still to come, upd.foo what is left of the copy of the  *)
(* paths of the module of upd.oldRef.                                      *)
(***************************************************************************)
Init ==
    /\ input \in {[scen |-> "circuit", name |-> ci.name, T |-> ci.T, c |-> ci.c,
                   preserveAggregate |-> pa, preservePublicTypes |-> ppt,
                   asserts |-> as] :
                     ci \in CircuitInputs, pa \in BOOLEAN, ppt \in BOOLEAN,
                     as \in BOOLEAN}
    /\ low = [phase |-> "off"]
    /\ circuit = input.c
    /\ task = [t \in DOMAIN input.c.mods |-> [pc |-> "lower", renames |-> <<>>]]
    /\ lock = ""
    /\ innerRefRenames = <<>>
    /\ nlaTable = addNLAs(<<>>, input.c.paths)
    /\ symbolTable = SymbolTableOf(input.c)
    /\ upd = [phase |-> "idle", namespace |-> {}, pending |-> {},
              oldRef |-> <<"", "">>, foo |-> <<>>]

\* What the call tl.lowerModule(op) of the task t leaves, c being the state
\* of the visitor at its return.
moduleLowered(t, c) ==
    /\ circuit' = [circuit EXCEPT !.mods[t] = c.m]
    /\ task' = [task EXCEPT ![t] = [pc |-> IF c.phase = "fatal" THEN "crashed" ELSE "lock",
                                    renames |-> c.tl.renames]]

LowerModule(t) ==
    /\ task[t].pc = "lower"
    /\ moduleLowered(t, lowerModule(circuit.mods[t], input.preserveAggregate,
                                    input.preservePublicTypes, input.asserts,
                                    ModuleTable(circuit)))
    /\ UNCHANGED <<low, input, lock, innerRefRenames, nlaTable, symbolTable, upd>>

\* A mutex that does not exclude.
mutexAlwaysFree(owner) == TRUE

\* std::mutex::lock returns when no thread owns the mutex.
mutexFree(owner) == owner = ""

\* std::lock_guard lg(nlaAppendLock)
Acquire(t) ==
    /\ task[t].pc = "lock"
    /\ mutexFree(lock)
    /\ lock' = t
    /\ task' = [task EXCEPT ![t].pc = "merge"]
    /\ UNCHANGED <<low, input, circuit, innerRefRenames, nlaTable, symbolTable, upd>>

\* An insertion that leaves only the pairs of the inserting module.
insertAllReplacing(map, renames) == renames

\* DenseMap::insert of each pair: a key that is present keeps its value.
insertAll(map, renames) == map @@ renames

Merge(t) ==
    /\ task[t].pc = "merge"
    /\ innerRefRenames' = insertAll(innerRefRenames, task[t].renames)
    /\ task' = [task EXCEPT ![t].pc = "unlock"]
    /\ UNCHANGED <<low, input, circuit, lock, nlaTable, symbolTable, upd>>

\* The end of the lambda: the lock_guard releases the mutex.
Release(t) ==
    /\ task[t].pc = "unlock"
    /\ lock' = ""
    /\ task' = [task EXCEPT ![t].pc = "done"]
    /\ UNCHANGED <<low, input, circuit, innerRefRenames, nlaTable, symbolTable, upd>>

\* A parallelForEach that returns with the first task.
someTaskReturned(tasks) == \E t \in DOMAIN tasks : tasks[t].pc = "done"

\* parallelForEach returns when the lambda has returned for every module.
parallelForEachReturned(tasks) == \A t \in DOMAIN tasks : tasks[t].pc = "done"

StartUpdate ==
    /\ upd.phase = "idle"
    /\ parallelForEachReturned(task)
    /\ upd' = [upd EXCEPT !.phase = "loop",
                          !.namespace = CircuitNamespace(circuit),
                          !.pending = DOMAIN innerRefRenames]
    /\ UNCHANGED <<low, input, circuit, task, lock, innerRefRenames, nlaTable, symbolTable>>

\* The next pair of innerRefRenames, in the order of the DenseMap, and the
\* copy of the paths of its module.
NextPair ==
    /\ upd.phase = "loop"
    /\ upd.foo = <<>>
    /\ \E oldRef \in upd.pending :
           upd' = [upd EXCEPT !.pending = @ \ {oldRef},
                              !.oldRef = oldRef,
                              !.foo = nlaLookup(nlaTable, oldRef[1])]
    /\ UNCHANGED <<low, input, circuit, task, lock, innerRefRenames, nlaTable, symbolTable>>

\* A path that does not end at oldRef is skipped.
SkipPath ==
    /\ upd.phase = "loop"
    /\ upd.foo # <<>>
    /\ Last(PathById(circuit, Head(upd.foo)).namepath) # upd.oldRef
    /\ upd' = [upd EXCEPT !.foo = Tail(@)]
    /\ UNCHANGED <<low, input, circuit, task, lock, innerRefRenames, nlaTable, symbolTable>>

pathSplit(st) ==
    /\ circuit' = st.c
    /\ nlaTable' = st.nla
    /\ symbolTable' = st.syms
    /\ upd' = [upd EXCEPT !.foo = Tail(@), !.namespace = st.ns]

SplitPath ==
    /\ upd.phase = "loop"
    /\ upd.foo # <<>>
    /\ Last(PathById(circuit, Head(upd.foo)).namepath) = upd.oldRef
    /\ pathSplit(splitPath(circuit, nlaTable, symbolTable, upd.namespace,
                           PathById(circuit, Head(upd.foo)), upd.oldRef,
                           innerRefRenames[upd.oldRef]))
    /\ UNCHANGED <<low, input, task, lock, innerRefRenames>>

\* The loop over innerRefRenames is over.
FinishUpdate ==
    /\ upd.phase = "loop"
    /\ upd.foo = <<>>
    /\ upd.pending = {}
    /\ upd' = [upd EXCEPT !.phase = "finished"]
    /\ UNCHANGED <<low, input, circuit, task, lock, innerRefRenames, nlaTable, symbolTable>>

Next ==
    \/ \E t \in DOMAIN task : LowerModule(t)
    \/ \E t \in DOMAIN task : Acquire(t)
    \/ \E t \in DOMAIN task : Merge(t)
    \/ \E t \in DOMAIN task : Release(t)
    \/ StartUpdate \/ NextPair \/ SkipPath \/ SplitPath \/ FinishUpdate

Spec == Init /\ [][Next]_vars

PassFinished == upd.phase = "finished"

(***************************************************************************)
(* What the properties are stated in: the ground leaves of a type and the  *)
(* names of the values of a module.                                        *)
(***************************************************************************)
RECURSIVE Flatten(_)
Flatten(ss) == IF ss = <<>> THEN <<>> ELSE Head(ss) \o Flatten(Tail(ss))

RECURSIVE Leaves(_)
\* The ground leaves of t in declaration order: the suffix of the leaf, its
\* type and whether an odd number of flips lies on the way to it.
Leaves(t) ==
    IF IsBundle(t)
      THEN Flatten([i \in 1..Len(t.elts) |->
                      [j \in 1..Len(Leaves(t.elts[i].type)) |->
                          [suffix |-> "_" \o t.elts[i].name
                                          \o Leaves(t.elts[i].type)[j].suffix,
                           type |-> Leaves(t.elts[i].type)[j].type,
                           flip |-> Leaves(t.elts[i].type)[j].flip # t.elts[i].flip]]])
    ELSE IF IsVector(t)
      THEN Flatten([i \in 1..t.n |->
                      [j \in 1..Len(Leaves(t.elt)) |->
                          [suffix |-> "_" \o IntStr(i - 1) \o Leaves(t.elt)[j].suffix,
                           type |-> Leaves(t.elt)[j].type,
                           flip |-> Leaves(t.elt)[j].flip]]])
      ELSE <<[suffix |-> "", type |-> t, flip |-> FALSE]>>

RECURSIVE ValName(_, _)
\* The name of a value: the name of the port or of the declaration, and for
\* an accessor the name of what it accesses with the suffix of the element.
ValName(m, v) ==
    LET op == m.ops[v[1]]
        t == TypeOf(m, op.operands[1])
    IN  IF op.kind = "arg"
          THEN (CHOOSE p \in Range(m.ports) : p.id = op.id).name
        ELSE IF op.kind = "subfield"
          THEN ValName(m, op.operands[1]) \o "_" \o t.elts[op.idx + 1].name
        ELSE IF op.kind = "subindex"
          THEN ValName(m, op.operands[1]) \o "_" \o IntStr(op.idx)
          ELSE op.name

ConnectOps(m) == {i \in DOMAIN m.ops : m.ops[i].kind \in {"connect", "strictconnect"}}

\* The assignments of m as pairs <<name of the destination, name of the
\* source>>.
ConnectPairs(m) ==
    {<<ValName(m, m.ops[i].operands[1]), ValName(m, m.ops[i].operands[2])>> :
        i \in ConnectOps(m)}

\* The ground assignments that stand for the assignments conns between
\* values of type T: one per leaf, from the source to the destination on an
\* even number of flips, the other way on an odd number.
LeafConnects(conns, T) ==
    {IF Leaves(T)[j].flip
       THEN <<cn[2] \o Leaves(T)[j].suffix, cn[1] \o Leaves(T)[j].suffix>>
       ELSE <<cn[1] \o Leaves(T)[j].suffix, cn[2] \o Leaves(T)[j].suffix>> :
       cn \in conns, j \in 1..Len(Leaves(T))}

Lowered == low.phase = "done"

\* C7: once a module is lowered, every connect or strict connect between two
\* values of one aggregate type has been replaced by ground assignments, one
\* per ground leaf of the type, each from the source to the destination when
\* an even number of flips lies on the way to the leaf and the other way
\* when an odd number does.
C7_ConnectPerLeaf ==
    (Lowered /\ input.scen \in {"connect", "ports", "when"}) =>
        /\ ConnectPairs(low.m) = LeafConnects(input.conns, input.T)
        /\ Cardinality(ConnectOps(low.m))
             = Cardinality(input.conns) * Len(Leaves(input.T))
        /\ \A i \in ConnectOps(low.m) :
              /\ isGround(TypeOf(low.m, low.m.ops[i].operands[1]))
              /\ isGround(TypeOf(low.m, low.m.ops[i].operands[2]))

\* A connect between two values of a nested type with flips at both depths
\* has been lowered to its four ground assignments.
C7_Witness ==
    /\ Lowered
    /\ input.scen = "connect"
    /\ input.T = BNested
    /\ Cardinality(ConnectOps(low.m)) = 4
    /\ <<"v_a_x", "w_a_x">> \in ConnectPairs(low.m)
    /\ <<"w_a_y", "v_a_y">> \in ConnectPairs(low.m)

RECURSIVE AccessPath(_, _)
\* The static accessors that lead to the value v: the value they start from
\* and their indices from there to v.
AccessPath(m, v) ==
    IF m.ops[v[1]].kind \in {"subfield", "subindex"}
      THEN [root |-> AccessPath(m, m.ops[v[1]].operands[1]).root,
            path |-> Append(AccessPath(m, m.ops[v[1]].operands[1]).path, m.ops[v[1]].idx)]
      ELSE [root |-> v, path |-> <<>>]

\* The when operations of a block, in the order of the block.
WhensOf(m, blk) == SelectSeq(m.blocks[blk], LAMBDA i : m.ops[i].kind = "when")

\* The constant that the condition of the when operation w compares with.
GuardConst(m, w) == m.ops[m.ops[m.ops[w].operands[1][1]].operands[2][1]]

\* In the inputs of a dynamic write the vector is operation 1, the index
\* operation 2 and the source operation 3; the write is the only connect.
DynWriteConnect == 5 + Len(input.sh.path)

\* lowerBlock is about to visit the dynamic write.
AtDynWrite ==
    /\ input.scen = "dynwrite"
    /\ ~input.isConst
    /\ low.phase = "body"
    /\ Len(low.stack) = 1
    /\ CurFrame(low).cur = DynWriteConnect

\* The module m holds the n conditional blocks of the dynamic write.
DynWriteLowered(m) ==
    LET ws == WhensOf(m, 0)
    IN  /\ Len(ws) = input.n
        /\ DynWriteConnect \notin DOMAIN m.ops
        /\ ConnectOps(m) \cap Range(m.blocks[0]) = {}
        /\ \A k \in 0..(input.n - 1) :
              LET w == ws[k + 1]
                  eq == m.ops[m.ops[w].operands[1][1]]
                  cons == ConnectOps(m) \cap Range(m.blocks[w])
              IN  /\ eq.kind = "eq"
                  /\ eq.operands[1] = Val(2)
                  /\ GuardConst(m, w).kind = "constant"
                  /\ GuardConst(m, w).idx = k
                  /\ ~m.ops[w].hasElse
                  /\ Cardinality(cons) = 1
                  /\ \A i \in cons :
                        /\ m.ops[i].operands[2] = Val(3)
                        /\ AccessPath(m, m.ops[i].operands[1])
                             = [root |-> Val(1), path |-> <<k>> \o input.sh.path]
        /\ \A iv \in 0..(Pow2(input.wi) - 1) :
              Cardinality({k \in 1..Len(ws) : GuardConst(m, ws[k]).idx = iv}) <= 1

\* C8: the visit of an assignment whose destination goes through static
\* accessors to a dynamic access v[i] of a vector of N elements replaces it
\* by exactly N when blocks; the k-th is guarded by i == k and holds exactly
\* one assignment, of the original source to the same accessors over
\* element k; no two guards hold for one value of i.
C8_DynamicWrite == [][AtDynWrite => DynWriteLowered(low'.m)]_vars

\* The write v[i].a.x <= s into a vector of the largest length has just been
\* replaced by its when blocks.
C8_Witness ==
    /\ input.scen = "dynwrite"
    /\ ~input.isConst
    /\ input.n = MaxVecLen
    /\ Len(input.sh.path) = 2
    /\ low.phase = "body"
    /\ Len(low.stack) = 1
    /\ CurOp(low).kind = "when"
    /\ DynWriteLowered(low.m)

\* What a multibit mux over inputs gives when its index is k: the operands
\* are listed from the last to the first, and index 0 gives the last one.
MultibitMuxSelect(inputs, k) == inputs[Len(inputs) - k]

\* The value v of m is the static index access at element k of the vector
\* vec.
IsSubindexOf(m, v, vec, k) ==
    /\ m.ops[v[1]].kind = "subindex"
    /\ m.ops[v[1]].operands = <<vec>>
    /\ m.ops[v[1]].idx = k

\* In the inputs of a dynamic read the vector is operation 1, the index
\* operation 2 and the dynamic access operation 3.
AtDynRead ==
    /\ input.scen = "dynread"
    /\ low.phase = "body"
    /\ Len(low.stack) = 1
    /\ CurFrame(low).cur = 3

\* The operation d of the module post stands for the dynamic read.
ReadReplacement(post, d) ==
    IF input.n = 0
      THEN d.kind = "invalid" /\ d.types = <<input.sh.elt>>
    ELSE IF input.isConst
      THEN d.kind = "subindex" /\ d.operands = <<Val(1)>>
           /\ d.idx = ConstIndex(input.n, input.wi)
      ELSE /\ d.kind = "multibit_mux"
           /\ d.operands[1] = Val(2)
           /\ Len(d.operands) = input.n + 1
           /\ \A p \in 0..(input.n - 1) :
                 IsSubindexOf(post, Tail(d.operands)[p + 1], Val(1), input.n - 1 - p)
           /\ \A k \in 0..(input.n - 1) :
                 IsSubindexOf(post, MultibitMuxSelect(Tail(d.operands), k), Val(1), k)

\* Every use of the dynamic read in pre is, in post, a use of a new
\* operation that stands for it, and the read is gone.
DynReadLowered(pre, post) ==
    /\ 3 \notin DOMAIN post.ops
    /\ Users(pre, Val(3)) # {}
    /\ \A u \in Users(pre, Val(3)) :
          \A j \in DOMAIN pre.ops[u].operands :
              pre.ops[u].operands[j] = Val(3) =>
                  /\ post.ops[u].operands[j][1] \notin DOMAIN pre.ops
                  /\ ReadReplacement(post, post.ops[post.ops[u].operands[j][1]])

\* C9: the visit of a dynamic vector access that is read replaces it by an
\* invalid value of the element type when the vector has no element, else
\* by the static index access at c when the index is the constant c, else by
\* a multibit mux over the index whose operand at position p is element
\* N-1-p, so that the index value k selects element k.
C9_DynamicRead == [][AtDynRead => DynReadLowered(low.m, low'.m)]_vars

\* The read of a vector of the largest length at an index that is no
\* constant has just been replaced by its multibit mux.
C9_Witness ==
    /\ input.scen = "dynread"
    /\ ~input.isConst
    /\ input.n = MaxVecLen
    /\ low.phase = "body"
    /\ 3 \notin DOMAIN low.m.ops
    /\ CurOp(low).kind = "multibit_mux"
    /\ ReadReplacement(low.m, CurOp(low))

\* The i-th smallest element of a set of numbers.
Nth(S, i) == CHOOSE x \in S : Cardinality({y \in S : y < x}) = i - 1

\* lowerBlock is about to visit an aggregate-typed producer of one of the
\* kinds.
AtProducer(kinds) ==
    /\ low.phase = "body"
    /\ CurFrame(low).cur # 0
    /\ CurOp(low).kind \in kinds
    /\ IsAggregate(CurOp(low).types[1])

\* The type decomposes: it is an aggregate that is not preserved.


Decomposes(t, preserveAggregate) ==
    IsAggregate(t) /\ ~(preserveAggregate /\ isPreservableAggregateType(t))

\* The operations that post holds and pre does not and that are of the kind
\* of op: its clones, in the order of their creation.
ClonesOf(pre, post, op) ==
    {i \in DOMAIN post.ops \ DOMAIN pre.ops : post.ops[i].kind = op.kind}

\* The producer op of pre is lowered in post.
ProducerLowered(pre, post, op) ==
    LET T == op.types[1]
        clones == ClonesOf(pre, post, op)
    IN  /\ Cardinality(clones) = getNumElements(T)
        /\ \A i \in 1..getNumElements(T) :
              post.ops[Nth(clones, i)].types = <<getElementType(T, i - 1)>>
        /\ \A a \in Users(pre, Val(op.id)) :
              pre.ops[a].kind \in {"subfield", "subindex"} =>
                  /\ a \notin DOMAIN post.ops
                  /\ \A u \in Users(pre, Val(a)) :
                        \A j \in DOMAIN pre.ops[u].operands :
                            pre.ops[u].operands[j] = Val(a) =>
                                post.ops[u].operands[j]
                                  = Val(Nth(clones, pre.ops[a].idx + 1))
        /\ op.id \notin DOMAIN post.ops

\* What the visit of the producer under the cursor has to do.
ProducerVisit ==
    IF Decomposes(CurOp(low).types[1], low.tl.preserveAggregate)
      THEN ProducerLowered(low.m, low'.m, CurOp(low))
      ELSE low'.m = low.m

\* C10: the visit of an aggregate-typed wire, register, reset register,
\* node, invalid value, mux, multibit mux or cast whose type has k immediate
\* fields creates exactly k narrowed clones in field order, replaces every
\* use through an accessor of field i by the i-th clone, erases the accessor
\* and removes the original; if the type does not decompose, the module is
\* left as it is.
C10_ProducerLowering == [][AtProducer(ProducerKinds) => ProducerVisit]_vars

\* The same for the visits that end without a fatal error.
C10_UnlessFatal ==
    [][(AtProducer(ProducerKinds) /\ ~low'.tl.err) => ProducerVisit]_vars

\* The operations that stand in a block of m.
BodyOps(m) == UNION {Range(m.blocks[b]) : b \in DOMAIN m.blocks}

BothSwitchesOff == ~low.tl.preserveAggregate /\ ~low.tl.preservePublicTypes

\* No port of m and no result of an operation of m outside of skip has a
\* bundle or vector type.
NoAggregateLeft(m, skip) ==
    /\ \A p \in Range(m.ports) : isGround(p.type)
    /\ \A i \in BodyOps(m) :
          m.ops[i].kind \notin skip =>
              \A r \in DOMAIN m.ops[i].types : isGround(m.ops[i].types[r])

\* C1 as stated: with both switches off, a lowered module has no port and no
\* operation result of bundle or vector type.
C1_NoAggregateLeft == (Lowered /\ BothSwitchesOff) => NoAggregateLeft(low.m, {})

\* C1: with both switches off, a lowered module (with a body or external)
\* has no port of bundle or vector type and no operation other than a memory
\* has a result of bundle or vector type; the data type of a memory is
\* ground.
C1_NoAggregateButMemoryPorts ==
    (Lowered /\ BothSwitchesOff) =>
        /\ NoAggregateLeft(low.m, {"mem"})
        /\ \A i \in BodyOps(low.m) : low.m.ops[i].kind = "mem" => isGround(low.m.ops[i].data)

\* A module with a memory of a nested data type has been lowered with both
\* switches off: the memories that are left have ground data and bundle
\* ports.
C1_Witness ==
    /\ Lowered
    /\ BothSwitchesOff
    /\ input.scen = "mem"
    /\ input.T = BNested
    /\ \E i \in BodyOps(low.m) :
          low.m.ops[i].kind = "mem" /\ IsBundle(low.m.ops[i].types[1])

(***************************************************************************)
(* The pass as a whole.                                                    *)
(***************************************************************************)
\* The inner symbols carried by the operations and the ports of m.
SymbolsIn(m) ==
    ({m.ops[i].sym : i \in BodyOps(m)} \cup {p.sym : p \in Range(m.ports)}) \ {""}

\* The paths that the path table holds.
TablePaths == {PathById(circuit, id) : id \in UNION {Range(nlaTable[mod]) : mod \in DOMAIN nlaTable}}

EndsAtSymbol(p) == Last(p.namepath)[2] # ""

Dangling(p) ==
    /\ EndsAtSymbol(p)
    /\ Last(p.namepath)[2] \notin SymbolsIn(circuit.mods[Last(p.namepath)[1]])

\* C2: after the pass, every hierarchical path of the path table ends at a
\* (module, inner symbol) pair whose symbol an operation or a port of that
\* module carries, whatever kind of declaration was split.
C2_NoDanglingPath == PassFinished => \A p \in TablePaths : ~Dangling(p)

\* The paths that end at a declaration other than a memory do not dangle.
C2_ButMemory ==
    (PassFinished /\ input.name # "mem") => \A p \in TablePaths : ~Dangling(p)

AllTasksMerged ==
    \A t \in DOMAIN task :
        /\ task[t].pc = "done"
        /\ \A key \in DOMAIN task[t].renames :
               key \in DOMAIN innerRefRenames /\ innerRefRenames[key] = task[t].renames[key]

\* A step of the path update: a path is erased or created, a table changes,
\* the annotations of a module change without a task moving, or the update
\* moves on.
PathUpdateStep ==
    \/ circuit'.paths # circuit.paths
    \/ nlaTable' # nlaTable
    \/ symbolTable' # symbolTable
    \/ (circuit'.mods # circuit.mods /\ task' = task)
    \/ upd' # upd

\* C3: no step of the hierarchical path update is taken before every task
\* has lowered its module, merged its renames into the shared map and
\* returned.
C3_UpdateAfterTasks == [][PathUpdateStep => AllTasksMerged]_vars

C3_Witness ==
    /\ upd.phase = "loop"
    /\ circuit.nextPath > input.c.nextPath
    /\ Cardinality(DOMAIN innerRefRenames) >= 2
    /\ \E t \in DOMAIN task : \E u \in DOMAIN task \ {t} :
           task[t].renames # <<>> /\ task[u].renames # <<>>

HoldsLock(t) == task[t].pc \in {"merge", "unlock"}

LoweredForm(t) ==
    lowerModule(input.c.mods[t], input.preserveAggregate, input.preservePublicTypes,
                input.asserts, ModuleTable(input.c)).m

ExclusiveMerge ==
    /\ Cardinality({t \in DOMAIN task : HoldsLock(t)}) <= 1
    /\ \A t \in DOMAIN task : HoldsLock(t) <=> lock = t

LockOutsideRewriting ==
    \A t \in DOMAIN task :
        /\ (lock' = t /\ lock # t) =>
               (task[t].pc = "lock" /\ circuit.mods[t] = LoweredForm(t)
                /\ circuit'.mods[t] = circuit.mods[t])
        /\ (task[t].pc = "lower" /\ task'[t].pc # "lower") => (lock # t /\ lock' # t)

\* C4: at most one task at a time is between taking the lock and releasing
\* it, which is where it inserts into the shared rename map; a task takes
\* the lock only when its module is in its lowered form; the step that
\* rewrites a module is taken by a task that does not hold the lock.
C4_MergeUnderLock == []ExclusiveMerge /\ [][LockOutsideRewriting]_vars

C4_Witness ==
    \E t \in DOMAIN task : \E u \in DOMAIN task \ {t} :
        /\ task[t].pc = "merge" /\ task[t].renames # <<>>
        /\ task[u].pc = "lock" /\ task[u].renames # <<>>

\* The path update stands before the split of the path SplitOf.
AtSplit ==
    /\ upd.phase = "loop"
    /\ upd.foo # <<>>
    /\ Last(PathById(circuit, Head(upd.foo)).namepath) = upd.oldRef

SplitOf == PathById(circuit, Head(upd.foo))

PathIds(c) == {p.id : p \in Range(c.paths)}

\* The path operations that post holds and pre does not, in the order of
\* their creation.
NewPaths(pre, post) ==
    [i \in 1..(post.nextPath - pre.nextPath) |->
        IF pre.nextPath + i - 1 \in PathIds(post) THEN PathById(post, pre.nextPath + i - 1)
        ELSE HierPathOp(0, "", <<>>)]

\* The annotations of the target that named the path oldName name newName
\* afterwards, and none of them is left naming another path.
Redirected(preAnnos, postAnnos, oldName, newPathName) ==
    /\ \A k \in DOMAIN preAnnos :
           preAnnos[k].nonlocal = oldName =>
               Cardinality({j \in DOMAIN postAnnos :
                              postAnnos[j] = [preAnnos[k] EXCEPT !.nonlocal = newPathName]})
               = Cardinality({j \in DOMAIN preAnnos : preAnnos[j] = preAnnos[k]})
    /\ Len(postAnnos) = Len(preAnnos)

\* The split of path into one path for each of newRefs.
SplitIntoLeafPaths(pre, post, path, newRefs) ==
    LET new == NewPaths(pre, post)
        mod == Last(path.namepath)[1]
    IN  /\ Len(new) = Len(newRefs)
        /\ PathIds(post) = (PathIds(pre) \ {path.id}) \cup {new[i].id : i \in DOMAIN new}
        /\ \A i \in DOMAIN new :
               /\ Len(new[i].namepath) = Len(path.namepath)
               /\ SubSeq(new[i].namepath, 1, Len(path.namepath) - 1)
                    = SubSeq(path.namepath, 1, Len(path.namepath) - 1)
               /\ Last(new[i].namepath) = <<mod, targetSym(post.mods[mod], newRefs[i])>>
               /\ Redirected(targetAnnos(pre.mods[mod], newRefs[i]),
                             targetAnnos(post.mods[mod], newRefs[i]),
                             path.name, new[i].name)

\* C5: the split of a path that ends at a symbol with N targets in the
\* rename map makes exactly N new paths, each the old namepath but for its
\* last element, the i-th ending at the symbol of the i-th target; the
\* annotations of the i-th target that named the old path name the i-th new
\* path afterwards.
C5_SplitIntoLeafPaths ==
    [][AtSplit => SplitIntoLeafPaths(circuit, circuit', SplitOf,
                                     innerRefRenames[upd.oldRef])]_vars

\* The same for the paths that end at a declaration, not at a port.
C5_ButPorts ==
    [][(AtSplit /\ \A i \in DOMAIN innerRefRenames[upd.oldRef] :
                      innerRefRenames[upd.oldRef][i].kind = "op")
        => SplitIntoLeafPaths(circuit, circuit', SplitOf, innerRefRenames[upd.oldRef])]_vars

InTables(p, nla, syms) ==
    /\ p.name \in DOMAIN syms
    /\ syms[p.name] = p.id
    /\ \A r \in Range(p.namepath) : p.id \in Range(nlaLookup(nla, r[1]))

NotInTables(p, nla, syms) ==
    /\ \A n \in DOMAIN syms : syms[n] # p.id
    /\ \A mod \in DOMAIN nla : p.id \notin Range(nla[mod])

\* The names and the table entries that the split of path leaves.
SplitNamesAndTables(pre, post, postNla, postSyms, path) ==
    LET new == NewPaths(pre, post)
    IN  /\ new # <<>>
        /\ new[1].name = path.name
        /\ \A i \in DOMAIN new :
               /\ i > 1 => new[i].name \notin CircuitNamespace(pre)
               /\ new[i].name \notin DOMAIN post.mods
               /\ \A q \in Range(post.paths) : q.id # new[i].id => q.name # new[i].name
               /\ new[i] \in Range(post.paths)
               /\ InTables(new[i], postNla, postSyms)
        /\ path \notin Range(post.paths)
        /\ NotInTables(path, postNla, postSyms)
        /\ \A q \in Range(pre.paths) :
               q.id # path.id => q \in Range(post.paths) /\ InTables(q, postNla, postSyms)

\* The paths of the input that do not end at a renamed symbol are as they
\* were when the pass has finished.
UnrenamedPathsKept ==
    PassFinished =>
        \A q \in Range(input.c.paths) :
            Last(q.namepath) \notin DOMAIN innerRefRenames =>
                q \in Range(circuit.paths) /\ InTables(q, nlaTable, symbolTable)

\* C6: the split of a path gives the first new path the name of the old
\* one and every further one a name that no other symbol of the circuit
\* has; the old path is in neither table and every new path is in both; a
\* path that does not end at a renamed symbol stays as it was.
C6_NamesAndTables ==
    /\ []UnrenamedPathsKept
    /\ [][AtSplit => SplitNamesAndTables(circuit, circuit', nlaTable', symbolTable',
                                         SplitOf)]_vars

C6_Witness ==
    /\ PassFinished
    /\ \E p \in Range(circuit.paths) : \E q \in Range(circuit.paths) :
           /\ p.id >= input.c.nextPath /\ q.id >= input.c.nextPath
           /\ p.name = "P" /\ q.name = "P_1"
    /\ \E q \in Range(input.c.paths) : q \in Range(circuit.paths)

(***************************************************************************)
(* Instances.                                                              *)
(***************************************************************************)
\* The immediate fields of an aggregate type: suffix, type and flip.
OneLayer(t) ==
    IF IsBundle(t)
      THEN [i \in 1..Len(t.elts) |->
              [suffix |-> "_" \o t.elts[i].name, type |-> t.elts[i].type,
               flip |-> t.elts[i].flip]]
      ELSE [i \in 1..t.n |->
              [suffix |-> "_" \o IntStr(i - 1), type |-> t.elt, flip |-> FALSE]]

Opposite(dir) == IF dir = "in" THEN "out" ELSE "in"

\* The ports of a module may stay aggregates: the keep-aggregates switch is
\* on and either the force-public-decomposition switch is off or the module
\* has a body and is not public.
MayKeepPorts(tl, module) ==
    tl.preserveAggregate /\ (~tl.preservePublicTypes \/ (~module.isExt /\ ~module.isPublic))

\* What stands for one port [name, dir, type] after one layer is peeled.
PortFields(port, may) ==
    IF Decomposes(port.type, may)
      THEN [j \in DOMAIN OneLayer(port.type) |->
              [name |-> port.name \o OneLayer(port.type)[j].suffix,
               dir |-> IF OneLayer(port.type)[j].flip THEN Opposite(port.dir) ELSE port.dir,
               type |-> OneLayer(port.type)[j].type]]
      ELSE <<port>>

InstancePorts(op) ==
    [i \in DOMAIN op.ports |->
        [name |-> op.ports[i].name, dir |-> op.ports[i].dir, type |-> op.types[i]]]

AtInstance ==
    /\ low.phase = "body"
    /\ CurFrame(low).cur # 0
    /\ CurOp(low).kind = "instance"

\* Every operand of post that was the value old in pre is the value new.
Rewired(pre, post, old, new) ==
    \A u \in Users(pre, old) :
        /\ u \in DOMAIN post.ops
        /\ \A j \in DOMAIN pre.ops[u].operands :
               pre.ops[u].operands[j] = old => post.ops[u].operands[j] = new

\* The users of the port a (counted from 0) of the instance op are at the
\* ports of the instance n that stand from position from on.
PortRewired(pre, post, op, a, n, from, may) ==
    /\ Users(post, <<op.id, a>>) = {}
    /\ IF ~Decomposes(op.types[a + 1], may)
         THEN Rewired(pre, post, <<op.id, a>>, <<n, from>>)
         ELSE \A u \in Users(pre, <<op.id, a>>) :
                  /\ pre.ops[u].kind \in {"subfield", "subindex"}
                  /\ u \notin DOMAIN post.ops
                  /\ Rewired(pre, post, Val(u), <<n, from + pre.ops[u].idx>>)

InstanceLowered(pre, post, op, may) ==
    LET ports == InstancePorts(op)
        new == {i \in DOMAIN post.ops \ DOMAIN pre.ops : post.ops[i].kind = "instance"}
    IN  IF \A i \in DOMAIN ports : ~Decomposes(ports[i].type, may)
          THEN post = pre
          ELSE /\ Cardinality(new) = 1
               /\ \A n \in new :
                      /\ InstancePorts(post.ops[n])
                           = Flatten([i \in DOMAIN ports |-> PortFields(ports[i], may)])
                      /\ post.ops[n].target = op.target
                      /\ \A a \in 0..(Len(ports) - 1) :
                             PortRewired(pre, post, op, a, n,
                                 Len(Flatten([i \in 1..a |-> PortFields(ports[i], may)])),
                                 may)

\* C11: the visit of an instance leaves the module as it is when no port
\* decomposes; otherwise it creates exactly one new instance whose ports are,
\* in the order of the old ports, the immediate fields of each port that
\* decomposes (named port name + suffix, the direction inverted for a flipped
\* field) or the port itself, and every user of an old port uses the new
\* port or ports at its position.
C11_InstanceLowering ==
    [][AtInstance => InstanceLowered(low.m, low'.m, CurOp(low),
                                     MayKeepPorts(low.tl, low.tl.symTbl[CurOp(low).target]))]_vars

\* The same for the visits that end without a fatal error.
C11_UnlessFatal ==
    [][(AtInstance /\ ~low'.tl.err)
        => InstanceLowered(low.m, low'.m, CurOp(low),
                           MayKeepPorts(low.tl, low.tl.symTbl[CurOp(low).target]))]_vars

(***************************************************************************)
(* Memories.                                                               *)
(***************************************************************************)
\* A connect from src to dst, each given as <<operation, result, index, ...>>:
\* the result it is taken from and the indices of the accessors on the way.
Connected(m, dst, src) ==
    \E i \in ConnectOps(m) :
        /\ AccessPath(m, m.ops[i].operands[1]).root \o AccessPath(m, m.ops[i].operands[1]).path = dst
        /\ AccessPath(m, m.ops[i].operands[2]).root \o AccessPath(m, m.ops[i].operands[2]).path = src

AtMem ==
    /\ low.phase = "body"
    /\ CurFrame(low).cur # 0
    /\ CurOp(low).kind = "mem"

\* mm is the memory of the field j (counted from 1) of the data type of op.
IsMemOfField(post, mm, op, j) ==
    /\ post.ops[mm].kind = "mem"
    /\ post.ops[mm].name = op.name \o OneLayer(op.data)[j].suffix
    /\ post.ops[mm].data = OneLayer(op.data)[j].type
    /\ post.ops[mm].depth = op.depth
    /\ Len(post.ops[mm].ports) = Len(op.ports)
    /\ \A a \in DOMAIN op.ports :
           /\ post.ops[mm].ports[a].name = op.ports[a].name
           /\ post.ops[mm].ports[a].kind = op.ports[a].kind

\* w is the wire of the port a (counted from 1) of op.
IsWireOfPort(pre, post, w, op, a) ==
    /\ post.ops[w].kind = "wire"
    /\ post.ops[w].types = <<op.types[a]>>
    /\ Users(post, <<op.id, a - 1>>) = {}
    /\ Rewired(pre, post, <<op.id, a - 1>>, Val(w))

\* The sub-field fi (counted from 0) of the wire w of the port a is hooked to
\* the memory mm of the field j.
FieldHooked(post, op, w, a, fi, mm, j) ==
    LET e == op.types[a].elts[fi + 1]
    IN  IF e.name \in {"data", "mask", "wdata", "wmask", "rdata"}
          THEN IF e.flip
                 THEN Connected(post, <<w, 0, fi, j - 1>>, <<mm, a - 1, fi>>)
                 ELSE Connected(post, <<mm, a - 1, fi>>, <<w, 0, fi, j - 1>>)
          ELSE Connected(post, <<mm, a - 1, fi>>, <<w, 0, fi>>)

MemLowered(pre, post, op) ==
    LET new == DOMAIN post.ops \ DOMAIN pre.ops
        mems == {i \in new : post.ops[i].kind = "mem"}
        wires == {i \in new : post.ops[i].kind = "wire"}
    IN  /\ Cardinality(mems) = Len(OneLayer(op.data))
        /\ Cardinality(wires) = Len(op.ports)
        /\ \A j \in DOMAIN OneLayer(op.data) : \E mm \in mems : IsMemOfField(post, mm, op, j)
        /\ \A a \in DOMAIN op.ports : \E w \in wires :
               /\ IsWireOfPort(pre, post, w, op, a)
               /\ \A fi \in 0..(Len(op.types[a].elts) - 1) :
                      \A j \in DOMAIN OneLayer(op.data) :
                          \A mm \in mems :
                              IsMemOfField(post, mm, op, j)
                                  => FieldHooked(post, op, w, a, fi, mm, j)

\* C12: the visit of a memory with p ports whose data type is an aggregate
\* of k immediate fields creates k memories, one per field with the same p
\* ports, and p wires, one per port, that take over the uses of the port;
\* the data and mask sub-fields of a wire are connected field by field with
\* the memory of the field (the wire is the destination when the sub-field
\* is flipped) and any other sub-field drives that sub-field of each memory.
C12_MemoryLowering ==
    [][(AtMem /\ ~isGround(CurOp(low).data)) => MemLowered(low.m, low'.m, CurOp(low))]_vars

\* The memory of the field a and the wire of the write port w are there and
\* the element a of the data of the wire drives the data of the memory.
C12_Witness ==
    /\ input.scen = "mem"
    /\ input.T = BAB
    /\ low.phase = "body"
    /\ \E mm, w \in DOMAIN low.m.ops :
           /\ low.m.ops[mm].kind = "mem" /\ low.m.ops[mm].name = "m_a"
           /\ low.m.ops[w].kind = "wire" /\ low.m.ops[w].name = "m_w"
           /\ Connected(low.m, <<mm, 1, 3>>, <<w, 0, 3, 0>>)

(***************************************************************************)
(* The ports of a module.                                                  *)
(***************************************************************************)
RECURSIVE PortLeaves(_, _)
\* The ports that stand for the port [name, dir, type] once nothing of it
\* decomposes any more, depth first and left to right.
PortLeaves(port, may) ==
    IF Decomposes(port.type, may)
      THEN Flatten([j \in DOMAIN OneLayer(port.type) |->
                      PortLeaves(PortFields(port, may)[j], may)])
      ELSE <<port>>

PortList(ports) ==
    [i \in DOMAIN ports |->
        [name |-> ports[i].name, dir |-> ports[i].dir, type |-> ports[i].type]]

\* The port list ports with every port replaced where it stands by its leaves.
LoweredPortList(ports, may) ==
    Flatten([i \in DOMAIN ports |-> PortLeaves(PortList(ports)[i], may)])

\* C13: once the ports of a module are lowered, its port list is the
\* original one with every port that decomposes replaced where it stood by
\* its leaves, depth first and left to right, each named by the port name and
\* the suffixes on the way to it, the other ports keeping their order; a
\* module without a body gets the list a module with a body gets.
C13_PortList ==
    low.phase = "done"
        => PortList(low.m.ports) = LoweredPortList(input.m.ports, MayKeepPorts(low.tl, input.m))

C13_Witness ==
    /\ low.phase = "done"
    /\ input.scen = "portlist"
    /\ input.T = BNested
    /\ input.m.isExt
    /\ [i \in DOMAIN low.m.ports |-> low.m.ports[i].name]
         = <<"g", "p_a_x", "p_a_y", "p_b_0", "p_b_1", "h", "q_a_x", "q_a_y", "q_b_0", "q_b_1">>

\* The instances of the module m.
InstancesOf(m) == {i \in BodyOps(m) : m.ops[i].kind = "instance"}

\* The ports of the list ports of a preservable aggregate type are in the
\* list now with their name and type.
PreservableKept(ports, now) ==
    \A i \in DOMAIN ports :
        (IsAggregate(ports[i].type) /\ isPreservableAggregateType(ports[i].type))
            => \E j \in DOMAIN now :
                   now[j].name = ports[i].name /\ now[j].type = ports[i].type

\* The ports of the module m, lowered under the switches tl to the port list
\* now, follow the policy for m.
PortPolicy(tl, m, ports, now) ==
    /\ (\E j \in DOMAIN now : IsAggregate(now[j].type)) => MayKeepPorts(tl, m)
    /\ MayKeepPorts(tl, m) => PreservableKept(ports, now)
    /\ (tl.preserveAggregate /\ tl.preservePublicTypes /\ (m.isExt \/ m.isPublic))
           => \A j \in DOMAIN now : isGround(now[j].type)

\* C14: the ports of a module, and of every instance of it, are left as
\* aggregates only if the keep-aggregates switch is on and either the
\* force-public-decomposition switch is off or the module has a body and is
\* not public, and then every port of a preservable type is left as it is;
\* with both switches on the ports of an external or public module are all
\* of ground type.
C14_PortPolicy ==
    low.phase = "done"
        => /\ PortPolicy(low.tl, input.m, PortList(input.m.ports), PortList(low.m.ports))
           /\ \A i \in InstancesOf(input.m) : \E n \in InstancesOf(low.m) :
                  /\ low.m.ops[n].name = input.m.ops[i].name
                  /\ PortPolicy(low.tl, low.tl.symTbl[input.m.ops[i].target],
                                InstancePorts(input.m.ops[i]), InstancePorts(low.m.ops[n]))

\* A private module with a body keeps its bundle ports with both switches on,
C14_Witness ==
    /\ low.phase = "done"
    /\ input.scen = "portlist"
    /\ ~input.m.isExt /\ ~input.m.isPublic
    /\ low.tl.preserveAggregate /\ low.tl.preservePublicTypes
    /\ input.T = BAB
    /\ \E j \in DOMAIN low.m.ports : low.m.ports[j].type = BAB

\* and an instance of a public module has its bundle port decomposed.
C14_WitnessInstance ==
    /\ low.phase = "done"
    /\ input.scen = "instance"
    /\ input.tbl["Child"].isPublic
    /\ low.tl.preserveAggregate /\ low.tl.preservePublicTypes
    /\ input.T = BAB
    /\ \E n \in InstancesOf(low.m) : Len(low.m.ops[n].ports) = 3

(***************************************************************************)
(* A register with a non-local DontTouchAnnotation on a field.             *)
(***************************************************************************)
RegsOf(m) == {i \in BodyOps(m) : m.ops[i].kind = "reg"}

\* The inner symbol of the register of Child in the input.
InputRegSym ==
    input.c.mods["Child"].ops[CHOOSE i \in RegsOf(input.c.mods["Child"]) : TRUE].sym

\* The paths of the circuit that the input did not have.
RewrittenPaths == {p \in Range(circuit.paths) : p \notin Range(input.c.paths)}

\* Child holds the ground registers r_a and r_b and no other, r_b with a
\* symbol and r_a without.
TwoGroundRegs(m) ==
    /\ Cardinality(RegsOf(m)) = 2
    /\ \E ra, rb \in RegsOf(m) :
           /\ m.ops[ra].name = "r_a" /\ m.ops[ra].types = <<U1>> /\ m.ops[ra].sym = ""
           /\ m.ops[rb].name = "r_b" /\ m.ops[rb].types = <<U2>> /\ m.ops[rb].sym # ""

\* One path is rewritten and ends at the symbol of r_b.
OnePathToB(m) ==
    /\ Cardinality(RewrittenPaths) = 1
    /\ \A p \in RewrittenPaths : \E rb \in RegsOf(m) :
           /\ m.ops[rb].name = "r_b"
           /\ p.namepath[Len(p.namepath)] = <<"Child", m.ops[rb].sym>>

\* C15: a register of the type {a, b} with a non-local DontTouchAnnotation
\* on b is lowered to the ground registers r_a and r_b, r_b with a new inner
\* symbol and r_a with none, and exactly one hierarchical path is rewritten,
\* to end at the symbol of r_b.
C15_RegisterDontTouch ==
    (PassFinished /\ input.name = "reg" /\ ~input.preserveAggregate)
        => TwoGroundRegs(circuit.mods["Child"]) /\ OnePathToB(circuit.mods["Child"])

\* What holds of the registers when the register has no symbol of its own:
\* they are as stated, and no path is rewritten.
C15_NoPathRewritten ==
    (PassFinished /\ input.name = "reg" /\ ~input.preserveAggregate /\ InputRegSym = "")
        => TwoGroundRegs(circuit.mods["Child"]) /\ RewrittenPaths = {}

\* What holds when the register has a symbol: both registers get a symbol
\* and the path is split in two.
C15_BothGetSymbols ==
    (PassFinished /\ input.name = "reg" /\ ~input.preserveAggregate /\ InputRegSym = "r")
        => /\ \A i \in RegsOf(circuit.mods["Child"]) : circuit.mods["Child"].ops[i].sym # ""
           /\ Cardinality(RewrittenPaths) = 2

(***************************************************************************)
(* The unknown user of a decomposed value.                                 *)
(***************************************************************************)
\* C16: once processUsers has met a user of a decomposed value that is
\* neither a subfield nor a subindex, the lowering is in the fatal state:
\* nothing is rewritten after that and no lowered module comes out.
C16_FatalOnUnknownUser ==
    (low.phase # "off" /\ low.tl.err) => low.phase = "fatal"

\* The same for the builds with assertions.
C16_FatalWithAssertions ==
    (low.phase # "off" /\ low.tl.err /\ low.tl.asserts) => low.phase = "fatal"

\* A build without assertions goes on and hands out a module in which the
\* unknown user still names the value of an operation that is gone.
C16_PartialResult ==
    /\ low.phase = "done"
    /\ low.tl.err
    /\ \E i \in BodyOps(low.m) : \E k \in DOMAIN low.m.ops[i].operands :
           low.m.ops[i].operands[k][1] \notin DOMAIN low.m.ops

(***************************************************************************)
(* Aggregates without elements and the zero-width test.                    *)
(***************************************************************************)
ZeroElements(t) == (IsBundle(t) /\ Len(t.elts) = 0) \/ (IsVector(t) /\ t.n = 0)

\* C17: peelType answers a bundle or vector type without elements with
\* "decomposed" and no fields, whether preservation is allowed or not, and
\* the visit of a producer of such a type removes it and creates nothing.
C17_EmptyAggregate ==
    [][(AtProducer(ProducerKinds) /\ ZeroElements(CurOp(low).types[1]))
        => /\ \A allowed \in BOOLEAN :
                  peelType(CurOp(low).types[1], allowed) = [ok |-> TRUE, fields |-> <<>>]
           /\ DOMAIN low'.m.ops = DOMAIN low.m.ops \ {CurOp(low).id}]_vars

\* A wire of a vector type of length 0 has been removed with preservation on.
C17_Witness ==
    /\ input.scen = "producer" /\ input.kind = "wire" /\ input.T = VecOf(0)
    /\ low.tl.preserveAggregate
    /\ low.phase = "done"
    /\ BodyOps(low.m) = {}

\* The types of the results of the operations of the module m.
TypesIn(m) == UNION {Range(m.ops[i].types) : i \in DOMAIN m.ops}

AllLeavesZeroWidth(t) == \A j \in DOMAIN Leaves(t) : Leaves(t)[j].type.w = 0

\* The zero-width test as stated: no elements, or no leaf of non-zero width.
ZeroWidthAsStated(t) == ZeroElements(t) \/ AllLeavesZeroWidth(t)

\* C18: hasZeroBitWidth is true of a type exactly when it is an aggregate
\* without elements or every leaf in it has zero width; so a passive
\* aggregate without analog that has a leaf of non-zero width is not
\* decomposed when preservation is allowed.
C18_ZeroWidthTest ==
    low.phase # "off"
        => \A t \in TypesIn(low.m) :
               /\ hasZeroBitWidth(t) = ZeroWidthAsStated(t)
               /\ (IsAggregate(t) /\ isPassive(t) /\ ~containsAnalog(t)
                   /\ ~AllLeavesZeroWidth(t))
                      => ~peelType(t, TRUE).ok

\* What holds instead: a bundle with a field that has no elements is
\* zero-width to the test whatever its other fields are.
C18_AnyEmptyField ==
    low.phase # "off"
        => \A t \in TypesIn(low.m) :
               (IsBundle(t) /\ \E i \in 1..Len(t.elts) : ZeroElements(t.elts[i].type))
                   => hasZeroBitWidth(t) /\ peelType(t, TRUE).ok

(***************************************************************************)
(* Bit casts to an aggregate.                                              *)
(***************************************************************************)
AtBitCast ==
    /\ low.phase = "body"
    /\ CurFrame(low).cur # 0
    /\ CurOp(low).kind = "bitcast"
    /\ Decomposes(CurOp(low).types[1], low.tl.preserveAggregate)

\* The widths of the immediate fields of t and the bit the field i starts at.
FieldWidths(t) == [i \in DOMAIN OneLayer(t) |-> getBitWidth(OneLayer(t)[i].type)]
FieldLow(t, i) == SumSeq(SubSeq(FieldWidths(t), 1, i - 1))

\* The users of the accessors of the field i of op use the value n.
FieldRewired(pre, post, op, i, n) ==
    \A a \in Users(pre, Val(op.id)) :
        (pre.ops[a].kind \in {"subfield", "subindex"} /\ pre.ops[a].idx = i - 1)
            => Rewired(pre, post, Val(a), Val(n))

\* The field i of the destination is the bits lo..hi of the value src.
FieldFromBits(pre, post, op, i, src, lo, hi) ==
    \E b, n \in DOMAIN post.ops \ DOMAIN pre.ops :
        /\ post.ops[b].kind = "bits"
        /\ post.ops[b].operands = <<src>>
        /\ post.ops[b].idx = lo /\ post.ops[b].hi = hi
        /\ post.ops[n].kind = "bitcast"
        /\ post.ops[n].operands = <<Val(b)>>
        /\ post.ops[n].types = <<OneLayer(op.types[1])[i].type>>
        /\ FieldRewired(pre, post, op, i, n)

FieldInvalid(pre, post, op, i) ==
    \E n \in DOMAIN post.ops \ DOMAIN pre.ops :
        /\ post.ops[n].kind = "invalid"
        /\ post.ops[n].types = <<OneLayer(op.types[1])[i].type>>
        /\ FieldRewired(pre, post, op, i, n)

\* The bits lo..hi of the bits operations bs of the module m.
BitRanges(m, bs) == {m.ops[b].idx .. m.ops[b].hi : b \in bs}

BitCastLowered(pre, post, op) ==
    LET T == op.types[1]
        bs == {b \in DOMAIN post.ops \ DOMAIN pre.ops : post.ops[b].kind = "bits"}
    IN  /\ \E src \in {post.ops[b].operands[1] : b \in bs} \cup {Val(0)} :
               \A i \in DOMAIN FieldWidths(T) :
                   IF FieldWidths(T)[i] = 0
                     THEN FieldInvalid(pre, post, op, i)
                     ELSE /\ FieldFromBits(pre, post, op, i, src, FieldLow(T, i),
                                           FieldLow(T, i) + FieldWidths(T)[i] - 1)
                          /\ TypeOf(post, src) = UIntT(getBitWidth(T))
        /\ Cardinality(bs) = Cardinality({i \in DOMAIN FieldWidths(T) : FieldWidths(T)[i] # 0})
        /\ \A r1, r2 \in BitRanges(post, bs) : r1 # r2 => r1 \cap r2 = {}
        /\ UNION BitRanges(post, bs) = 0..(SumSeq(FieldWidths(T)) - 1)
        /\ SumSeq(FieldWidths(T)) = getBitWidth(T)

\* C19: the visit of a bit cast to an aggregate that decomposes takes the
\* field i from the bits w0+...+w(i-1) .. w0+...+wi-1 of the source as one
\* UInt, the w being the widths of the immediate fields; the ranges are
\* disjoint and cover the bits 0..W-1, W the width of the destination; a
\* field of width 0 is an invalid value and takes no bits.
C19_BitCastRanges ==
    [][AtBitCast => BitCastLowered(low.m, low'.m, CurOp(low))]_vars

\* Cast to {a: UInt<1>, z: {}, b: UInt<2>}: b is the bits 2..1 and z invalid.
C19_Witness ==
    /\ input.scen = "producer" /\ input.T = BZeroMid
    /\ low.phase = "body"
    /\ \E b, z \in BodyOps(low.m) :
           /\ low.m.ops[b].kind = "bits" /\ low.m.ops[b].idx = 1 /\ low.m.ops[b].hi = 2
           /\ low.m.ops[z].kind = "invalid" /\ low.m.ops[z].types = <<BEmpty>>

(***************************************************************************)
(* The walk of a block.                                                    *)
(***************************************************************************)
\* The position of the operation id in the block blk of m.
PosIn(m, blk, id) == CHOOSE i \in 1..Len(m.blocks[blk]) : m.blocks[blk][i] = id

\* The operations of the block of the frame f that are still to be
\* dispatched: the one the iterator stands at and those before it.
PendingOf(m, f) ==
    IF f.cur = 0 THEN {}
    ELSE {m.blocks[f.blk][i] : i \in 1..PosIn(m, f.blk, f.cur)}

\* The step dispatches the operation the innermost lowerBlock stands at and
\* that lowerBlock goes on.
Dispatches ==
    /\ low.phase = "body" /\ low'.phase = "body"
    /\ CurFrame(low).cur # 0
    /\ Len(low'.stack) = Len(low.stack)
    /\ CurFrame(low').blk = CurFrame(low).blk

\* What a dispatch of the operation x of the block blk leaves to be
\* dispatched: what was to be dispatched before x and is still there, and
\* every operation the visit put into the block, these after those.
WalkStep(pre, post, blk, x, f, g) ==
    LET new == Range(post.blocks[blk]) \ Range(pre.blocks[blk])
        old == (PendingOf(pre, f) \ {x}) \cap Range(post.blocks[blk])
    IN  /\ PendingOf(post, g) = old \cup new
        /\ \A o \in old : \A n \in new : PosIn(post, blk, o) < PosIn(post, blk, n)
        /\ \A n \in new : x \in Range(post.blocks[blk]) =>
               PosIn(post, blk, n) < PosIn(post, blk, x)
        /\ \A o, q \in old : PosIn(pre, blk, o) < PosIn(pre, blk, q)
                                 => PosIn(post, blk, o) < PosIn(post, blk, q)

\* A lowerBlock call begins at the last operation of its block and, when it
\* returns to the walk of the enclosing block, the when operation is passed.
WalkNesting ==
    /\ (low.phase = "body" /\ Len(low'.stack) > Len(low.stack))
           => PendingOf(low'.m, CurFrame(low')) = Range(low'.m.blocks[CurFrame(low').blk])
    /\ (low.phase = "body" /\ low'.phase = "body" /\ Len(low'.stack) < Len(low.stack))
           => PendingOf(low'.m, CurFrame(low'))
                = PendingOf(low.m, low.stack[Len(low'.stack)]) \ {low.stack[Len(low'.stack)].cur}

\* C20: the walk of a block ends, and it goes from the last operation to the
\* first: an operation that was dispatched is never to be dispatched again,
\* the operations a visit inserts before the visited one are dispatched
\* next, before the operations that stood before it, and the operation
\* that is dispatched is the last of those still to be dispatched.
C20_WalkOrder ==
    /\ [][/\ Dispatches => WalkStep(low.m, low'.m, CurFrame(low).blk, CurFrame(low).cur,
                                    CurFrame(low), CurFrame(low'))
          /\ WalkNesting]_vars
    /\ <>(low.phase # "body")

\* A visit has put operations before the visited one and the iterator
\* stands at the last of them.
C20_Witness ==
    /\ low.phase = "body"
    /\ input.scen = "mem"
    /\ CurFrame(low).cur # 0
    /\ CurFrame(low).cur \notin DOMAIN input.m.ops
    /\ \E i \in DOMAIN input.m.ops : i \in PendingOf(low.m, CurFrame(low))

(***************************************************************************)
(* Conditional blocks.                                                     *)
(***************************************************************************)
\* The when operations whose visit has begun and has not returned.
WhensInVisit(c) ==
    {c.stack[i].cur : i \in {j \in 1..Len(c.stack) : c.stack[j].st \in {"then", "else"}}}

\* The when operation w is in post what it is in pre: the same operation in
\* the same block, with the same condition and the same blocks.
WhenKept(pre, post, w) ==
    /\ w \in DOMAIN post.ops
    /\ post.ops[w].kind = "when"
    /\ post.ops[w].operands = pre.ops[w].operands
    /\ post.ops[w].hasElse = pre.ops[w].hasElse
    /\ w \in DOMAIN post.blocks
    /\ pre.ops[w].hasElse => -w \in DOMAIN post.blocks
    /\ BlockOf(post, w) = BlockOf(pre, w)
    /\ Cardinality({x \in Range(post.blocks[BlockOf(post, w)]) : post.ops[x].kind = "when"})
         = Cardinality({x \in Range(pre.blocks[BlockOf(pre, w)]) : pre.ops[x].kind = "when"})

\* The visitor of the operation id has nothing left to do: a visit of it
\* changes nothing and does not ask for its removal.
Settled(c, id) ==
    dispatchVisitor([c EXCEPT !.blk = BlockOf(c.m, id), !.at = id], c.m.ops[id])
        = [c |-> [c EXCEPT !.blk = BlockOf(c.m, id), !.at = id], remove |-> FALSE]

\* No operation of the block is left to be lowered: none is an assignment
\* to an aggregate or through a dynamic access, and the visitor of each has
\* nothing left to do.
BlockLowered(c, blk) ==
    \A id \in Range(c.m.blocks[blk]) :
        /\ c.m.ops[id].kind \in {"connect", "strictconnect"} =>
               /\ isGround(TypeOf(c.m, c.m.ops[id].operands[1]))
               /\ getSAWritePath(c.m, c.m.ops[id]) = <<>>
        /\ Settled(c, id)

\* The step is the return of visitStmt(WhenOp) for the operation w.
WhenReturns(w) ==
    /\ low.phase = "body" /\ low'.phase = "body"
    /\ Len(low'.stack) < Len(low.stack)
    /\ w = low.stack[Len(low.stack) - 1].cur

\* The step begins the visit of the operation w.
WhenEntered(w) ==
    /\ low.phase = "body"
    /\ CurFrame(low).cur = w
    /\ low.m.ops[w].kind = "when"

\* C21: from the step that begins the visit of a when operation to the step
\* with which the visit returns, the operation stays where it is with its
\* condition and its blocks, and when the visit returns every operation of
\* its then-block and of its else-block has been lowered.
C21_WhenVisit ==
    [][/\ \A w \in WhensInVisit(low) : WhenKept(low.m, low'.m, w)
       /\ \A w \in DOMAIN low.m.ops : WhenEntered(w) =>
              /\ WhenKept(low.m, low'.m, w)
              /\ w \in WhensInVisit(low')
       /\ \A w \in WhensInVisit(low) : WhenReturns(w) =>
              /\ BlockLowered(low', w)
              /\ low.m.ops[w].hasElse => BlockLowered(low', -w)]_vars

\* The visit of a when operation that the expansion of a dynamic write of a
\* bundle created has returned: the assignment in it was lowered field by
\* field.
C21_Witness ==
    /\ input.scen = "dynwrite"
    /\ input.sh.leaf = BAB
    /\ low.phase = "body"
    /\ \E w \in DOMAIN low.m.ops :
           /\ low.m.ops[w].kind = "when"
           /\ w \notin DOMAIN input.m.ops
           /\ w \notin WhensInVisit(low)
           /\ w \notin PendingOf(low.m, CurFrame(low))
           /\ Len(low.m.blocks[w]) > 1
           /\ BlockLowered(low, w)

\* The visit of a when operation with an else-block has returned and the
\* assignments of both blocks were lowered.
C21_WitnessElse ==
    /\ input.scen = "when"
    /\ low.phase = "body"
    /\ \E w \in DOMAIN low.m.ops :
           /\ low.m.ops[w].hasElse
           /\ w \notin WhensInVisit(low)
           /\ w \notin PendingOf(low.m, CurFrame(low))
           /\ Len(low.m.blocks[-w]) > 1
           /\ BlockLowered(low, w) /\ BlockLowered(low, -w)

(***************************************************************************)
(* Annotations of the fields of a peel.                                    *)
(***************************************************************************)
\* The classes of the allow-list of field-ID-sensitive annotations.
FieldIDSensitiveClasses == {SignalDriverClass}

\* What an annotation without field-ID qualifier is on a produced field
\* with the field ID id.
PassedOn(a, id) ==
    IF a.class \in FieldIDSensitiveClasses /\ id # 0
      THEN [a EXCEPT !.sfid = id + (IF a.sfid = -1 THEN 0 ELSE a.sfid)]
      ELSE a

\* The visit of the declaration op has given each unqualified annotation of
\* op to every clone; clones that had nothing else to take hold exactly
\* these, in order.
UnqualifiedRetained(pre, post, op) ==
    \A i \in 1..getNumElements(op.types[1]) :
        LET cl == post.ops[Nth(ClonesOf(pre, post, op), i)]
            id == getFieldID(op.types[1], i - 1)
        IN  /\ \A k \in DOMAIN op.annos :
                   op.annos[k].fieldID = -1 =>
                       \E j \in DOMAIN cl.annos : cl.annos[j] = PassedOn(op.annos[k], id)
            /\ (\A k \in DOMAIN op.annos : op.annos[k].fieldID = -1) =>
                   cl.annos = [k \in DOMAIN op.annos |-> PassedOn(op.annos[k], id)]

RECURSIVE FieldPaths(_)
\* The fields of t at every depth, t itself included: the suffix of the
\* name and the sum of the field IDs on the way, each field ID taken in the
\* aggregate the step leaves.
FieldPaths(t) ==
    {[suffix |-> "", sum |-> 0]}
    \cup UNION {{[suffix |-> OneLayer(t)[i].suffix \o p.suffix,
                  sum |-> getFieldID(t, i - 1) + p.sum] :
                     p \in FieldPaths(OneLayer(t)[i].type)} :
                        i \in 1..getNumElements(t)}

\* Every declaration derived from the wire w of the input holds the
\* unqualified annotations of w, a field-ID-sensitive one with the sum of
\* the field IDs on the way to the declaration added.
SumAlongPath ==
    \A id \in DOMAIN low.m.ops : \A p \in FieldPaths(input.T) :
        (low.m.ops[id].kind = "wire" /\ low.m.ops[id].name = "w" \o p.suffix) =>
            \A k \in DOMAIN input.annos :
                input.annos[k].fieldID = -1 =>
                    \E j \in DOMAIN low.m.ops[id].annos :
                        low.m.ops[id].annos[j] = PassedOn(input.annos[k], p.sum)

\* C22: the visit of a declaration that decomposes gives every annotation
\* without field-ID qualifier to every produced field, unchanged unless its
\* class is field-ID-sensitive, and then with the field's ID added to its
\* field ID (0 when it had none); after several peels the field ID is the
\* sum of the field IDs along the path.
C22_UnqualifiedAnnotations ==
    /\ [][(AtProducer({"wire"}) /\ Decomposes(CurOp(low).types[1], low.tl.preserveAggregate))
            => UnqualifiedRetained(low.m, low'.m, CurOp(low))]_vars
    /\ [](input.scen = "annos" => SumAlongPath)

\* The wire w_a_y, two peels below w, holds the signal driver annotation
\* with the field ID 1 + 2 added to the one it had.
C22_Witness ==
    /\ input.scen = "annos"
    /\ input.T = BNested
    /\ input.annos[1] = PriorSignalDriver
    /\ \E id \in DOMAIN low.m.ops :
           /\ low.m.ops[id].kind = "wire"
           /\ low.m.ops[id].name = "w_a_y"
           /\ \E j \in DOMAIN low.m.ops[id].annos :
                  low.m.ops[id].annos[j].sfid = PriorSignalDriver.sfid + 3

\* The annotations of op are all qualified with a non-zero field ID of the
\* type of op.
AllInFieldIDRange(op) ==
    /\ op.annos # <<>>
    /\ \A k \in DOMAIN op.annos :
           op.annos[k].fieldID >= 1 /\ op.annos[k].fieldID <= getMaxFieldID(op.types[1])

\* What the annotation a, qualified with a non-zero field ID, gives on the
\* produced field with the field ID id and the type t: nothing outside the
\* range of the field, the residual inside it, no qualifier when the
\* residual is zero.
AppliedTo(a, id, t) ==
    IF ~(id <= a.fieldID /\ a.fieldID <= id + getMaxFieldID(t)) THEN <<>>
    ELSE IF a.fieldID - id # 0 THEN <<[a EXCEPT !.fieldID = a.fieldID - id]>>
    ELSE <<[a EXCEPT !.fieldID = -1]>>

\* The same, but a do-not-touch annotation whose residual is zero is not
\* carried on.
AppliedButDontTouch(a, id, t) ==
    IF a.class = DontTouchClass /\ a.fieldID = id THEN <<>> ELSE AppliedTo(a, id, t)

\* The number of the produced fields of t in whose range the field ID f
\* lies.
FieldsInRange(t, f) ==
    Cardinality({i \in 1..getNumElements(t) :
                    /\ getFieldID(t, i - 1) <= f
                    /\ f <= getFieldID(t, i - 1) + getMaxFieldID(getElementType(t, i - 1))})

OneFieldEach(op) ==
    \A k \in DOMAIN op.annos : FieldsInRange(op.types[1], op.annos[k].fieldID) = 1

\* The step is the visit of a wire that decomposes and whose annotations
\* are all qualified with a non-zero field ID of its type.
AtQualified ==
    /\ AtProducer({"wire"})
    /\ Decomposes(CurOp(low).types[1], low.tl.preserveAggregate)
    /\ AllInFieldIDRange(CurOp(low))

\* C23 as stated: when an aggregate is peeled, every annotation with a
\* non-zero field ID of the aggregate lies in the range of exactly one
\* produced field, and each clone holds exactly the annotations in its
\* range, with the residual field ID, or without qualifier when the
\* residual is zero.
C23_QualifiedAnnotations ==
    [][AtQualified =>
          /\ OneFieldEach(CurOp(low))
          /\ \A i \in 1..getNumElements(CurOp(low).types[1]) :
                 low'.m.ops[Nth(ClonesOf(low.m, low'.m, CurOp(low)), i)].annos
                   = Flatten([k \in DOMAIN CurOp(low).annos |->
                                AppliedTo(CurOp(low).annos[k],
                                          getFieldID(CurOp(low).types[1], i - 1),
                                          getElementType(CurOp(low).types[1], i - 1))])]_vars

\* C23 amended: the same, except that a do-not-touch annotation is not
\* carried on the field whose field ID it names.
C23_ButDontTouch ==
    [][AtQualified =>
          /\ OneFieldEach(CurOp(low))
          /\ \A i \in 1..getNumElements(CurOp(low).types[1]) :
                 low'.m.ops[Nth(ClonesOf(low.m, low'.m, CurOp(low)), i)].annos
                   = Flatten([k \in DOMAIN CurOp(low).annos |->
                                AppliedButDontTouch(CurOp(low).annos[k],
                                          getFieldID(CurOp(low).types[1], i - 1),
                                          getElementType(CurOp(low).types[1], i - 1))])]_vars

\* After the lowering the annotation X on the field ID 2 of the nested
\* bundle (a.x) is on w_a_x, without qualifier, and on no other wire.
C23_Witness ==
    /\ input.scen = "annos"
    /\ input.T = BNested
    /\ input.annos = <<Anno("X", 2, "")>>
    /\ ~low.tl.preserveAggregate
    /\ low.phase = "done"
    /\ \A id \in DOMAIN low.m.ops :
           low.m.ops[id].annos = IF low.m.ops[id].name = "w_a_x"
                                   THEN <<Anno("X", -1, "")>> ELSE <<>>
    /\ \E id \in DOMAIN low.m.ops : low.m.ops[id].name = "w_a_x"

(***************************************************************************)
(* The do-not-touch annotation of a field.                                 *)
(***************************************************************************)
\* The list holds a do-not-touch annotation on the field ID id.
HasDontTouchOn(annos, id) ==
    \E k \in DOMAIN annos : annos[k].class = DontTouchClass /\ annos[k].fieldID = id

\* The number of the do-not-touch annotations of the list that are
\* qualified with one of the field IDs ids.
DontTouchCount(annos, ids) ==
    Cardinality({k \in DOMAIN annos :
                    annos[k].class = DontTouchClass /\ annos[k].fieldID \in ids})

\* What filterAnnotations gave for the field is without the do-not-touch
\* annotation of the field (those it holds without qualifier stem from the
\* ones on the whole declaration) and asks for a symbol.
DontTouchConverted(annos, field, fa) ==
    /\ DontTouchCount(fa.retval, {-1}) = DontTouchCount(annos, {-1, 0})
    /\ fa.needsSym

\* The annotations after position k of the list that are kept on the field
\* with their qualifier erased.
KeptAfter(annos, k, id) ==
    {j \in DOMAIN annos : j > k /\ annos[j].fieldID = id /\ annos[j].class # DontTouchClass}

\* C24: when the annotations of a declaration that decomposes hold a
\* do-not-touch annotation on the field ID of a produced field, the filter
\* gives a list without it and sets the needs-symbol flag, and the clone of
\* the field gets a symbol, whatever else the list holds and in whatever
\* order.
C24_DontTouchToSymbol ==
    [][(AtProducer({"wire"}) /\ Decomposes(CurOp(low).types[1], low.tl.preserveAggregate)) =>
          \A i \in 1..getNumElements(CurOp(low).types[1]) :
              HasDontTouchOn(CurOp(low).annos, getFieldID(CurOp(low).types[1], i - 1)) =>
                  /\ DontTouchConverted(CurOp(low).annos,
                                        peelType(CurOp(low).types[1], FALSE).fields[i],
                                        filterAnnotations(CurOp(low).annos,
                                            peelType(CurOp(low).types[1], FALSE).fields[i],
                                            FALSE))
                  /\ low'.m.ops[Nth(ClonesOf(low.m, low'.m, CurOp(low)), i)].sym # ""]_vars

\* What holds: the flag is set and the clone gets a symbol when no
\* annotation that is kept on the field follows the last do-not-touch
\* annotation of the field in the list; the annotation is absent in any
\* case.
C24_UnlessOverwritten ==
    [][(AtProducer({"wire"}) /\ Decomposes(CurOp(low).types[1], low.tl.preserveAggregate)) =>
          \A i \in 1..getNumElements(CurOp(low).types[1]) :
              \A k \in DOMAIN CurOp(low).annos :
                  (/\ CurOp(low).annos[k].class = DontTouchClass
                   /\ CurOp(low).annos[k].fieldID = getFieldID(CurOp(low).types[1], i - 1)) =>
                      /\ DontTouchCount(low'.m.ops[Nth(ClonesOf(low.m, low'.m, CurOp(low)), i)].annos,
                                        {-1})
                           = DontTouchCount(CurOp(low).annos, {-1, 0})
                      /\ KeptAfter(CurOp(low).annos, k,
                                   getFieldID(CurOp(low).types[1], i - 1)) = {}
                           => low'.m.ops[Nth(ClonesOf(low.m, low'.m, CurOp(low)), i)].sym # ""]_vars

\* The wire of the field a was created without a symbol although the list
\* held the do-not-touch annotation of the field, followed by a local
\* annotation on the same field.
C24_FlagLost ==
    /\ input.scen = "annos"
    /\ input.T = BAB
    /\ input.annos = <<Anno(DontTouchClass, 1, ""), Anno("X", 1, "")>>
    /\ \E id \in DOMAIN low.m.ops :
           /\ low.m.ops[id].name = "w_a"
           /\ low.m.ops[id].sym = ""
           /\ low.m.ops[id].annos = <<Anno("X", -1, "")>>

(***************************************************************************)
(* The rename map of a module.                                             *)
(***************************************************************************)
\* The declarations and ports of m that carry an inner symbol, as
\* [sym, type]: the body operations but the instances and memories (whose
\* results are their ports), and the ports.
SymbolCarriers(m) ==
    {[sym |-> m.ops[i].sym, type |-> m.ops[i].types[1]] :
        i \in {j \in DOMAIN m.ops : /\ m.ops[j].sym # ""
                                    /\ m.ops[j].kind \notin {"arg", "instance", "mem"}}}
    \cup {[sym |-> m.ports[p].sym, type |-> m.ports[p].type] :
            p \in {q \in DOMAIN m.ports : m.ports[q].sym # ""}}

\* The symbols derived from the carrier d: its symbol with the suffixes of
\* a path into its type.
DerivedSymbols(d) == {d.sym \o p.suffix : p \in FieldPaths(d.type)}

\* The ground-typed declarations and ports of m whose symbol is one of
\* syms, as annotation targets.
GroundTargets(m, syms) ==
    {OpAnnoTarget(i) :
        i \in {j \in DOMAIN m.ops : /\ m.ops[j].kind \notin {"arg", "instance", "mem"}
                                    /\ m.ops[j].sym \in syms
                                    /\ isGround(m.ops[j].types[1])}}
    \cup {PortAnnoTarget(p - 1) :
            p \in {q \in DOMAIN m.ports : /\ m.ports[q].sym \in syms
                                          /\ isGround(m.ports[q].type)}}

\* The task t has lowered its module and the path update has not begun:
\* the module of the circuit is as lowerModule left it.
ModuleLowered(t) == task[t].pc \in {"lock", "merge", "unlock", "done"} /\ upd.phase = "idle"

\* The keys of the rename map of pre (lowered into post) are symbols of
\* pre.
KeysAreOriginal(pre, renames) ==
    \A key \in DOMAIN renames :
        /\ key[1] = pre.name
        /\ \E d \in SymbolCarriers(pre) : d.sym = key[2]

\* The targets under each key are the ground-typed declarations and ports
\* derived from the original of the key, each once.
TargetsAreLeaves(pre, post, renames, kinds) ==
    \A key \in DOMAIN renames : \A d \in SymbolCarriers(pre) :
        d.sym = key[2] =>
            /\ {x \in Range(renames[key]) : x.kind \in kinds}
                 = {x \in GroundTargets(post, DerivedSymbols(d)) : x.kind \in kinds}
            /\ Cardinality(Range(renames[key])) = Len(renames[key])

\* C25: every key of the rename map of a module is the pair of the module
\* and the inner symbol of a declaration or port of the module before the
\* lowering, and the targets under the key are exactly the ground-typed
\* declarations and ports derived from it.
C25_RenameMap ==
    \A t \in DOMAIN task :
        (input.scen = "circuit" /\ ModuleLowered(t)) =>
            /\ KeysAreOriginal(input.c.mods[t], task[t].renames)
            /\ TargetsAreLeaves(input.c.mods[t], circuit.mods[t], task[t].renames,
                                {"op", "port"})

\* What holds: the keys are original symbols and the declarations listed
\* under a key are exactly the ground-typed declarations derived from it.
C25_ButPorts ==
    \A t \in DOMAIN task :
        (input.scen = "circuit" /\ ModuleLowered(t)) =>
            /\ KeysAreOriginal(input.c.mods[t], task[t].renames)
            /\ \A key \in DOMAIN task[t].renames : \A d \in SymbolCarriers(input.c.mods[t]) :
                   d.sym = key[2] =>
                       {x \in Range(task[t].renames[key]) : x.kind = "op"}
                         = {x \in GroundTargets(circuit.mods[t], DerivedSymbols(d)) :
                               x.kind = "op"}

\* The wire w of type {a: {x, y}, b} was lowered through two peels and the
\* three ground wires are the targets under the key of w.
C25_TwoLevels ==
    /\ input.scen = "circuit" /\ input.name = "wire" /\ input.T = BMixed
    /\ ~input.preserveAggregate
    /\ ModuleLowered("Top")
    /\ <<"Top", "w">> \in DOMAIN task["Top"].renames
    /\ Len(task["Top"].renames[<<"Top", "w">>]) = 3
    /\ \A x \in Range(task["Top"].renames[<<"Top", "w">>]) :
           circuit.mods["Top"].ops[x.ref].sym \in {"w_a_x", "w_a_y", "w_b"}

(***************************************************************************)
(* The port numbers of the rename map.                                     *)
(***************************************************************************)
\* The targets the step from pre to post has put under the key.
Added(pre, post, key) ==
    IF key \in DOMAIN pre
      THEN SubSeq(post[key], Len(pre[key]) + 1, Len(post[key]))
      ELSE post[key]

\* The ground-typed immediate fields of the port, in order.
GroundFields(port) ==
    SelectSeq(OneLayer(port.type), LAMBDA f : isGround(f.type))

\* The step lowers the argument the loop over the arguments stands at.
AtArg ==
    /\ low.phase = "args"
    /\ low.argIndex < Len(low.newArgs)

\* The port targets recorded for the ground fields of the port arg are the
\* positions, in the port list ports, of the ports that carry the symbols
\* derived for these fields.
RecordedPositions(arg, added, ports) ==
    /\ Len(added) = Len(GroundFields(arg))
    /\ \A k \in DOMAIN added :
           /\ added[k].kind = "port"
           /\ added[k].ref + 1 \in DOMAIN ports
           /\ ports[added[k].ref + 1].sym = arg.sym \o GroundFields(arg)[k].suffix

\* C26: the port number that the lowering of an argument records for a
\* ground field in the rename map is the position, in the port list the
\* module has when its lowering is finished, of the port that carries the
\* symbol derived for the field.
C26_PortNumbers ==
    [][AtArg =>
          \A key \in DOMAIN low'.tl.renames :
              Added(low.tl.renames, low'.tl.renames, key) # <<>> =>
                  RecordedPositions(low.newArgs[low.argIndex + 1],
                                    Added(low.tl.renames, low'.tl.renames, key),
                                    runLowering(low').m.ports)]_vars

\* What holds: the number is right when no earlier sibling field of the
\* same port is an aggregate.
C26_UnlessEarlierAggregate ==
    [][AtArg =>
          \A key \in DOMAIN low'.tl.renames :
              (/\ Added(low.tl.renames, low'.tl.renames, key) # <<>>
               /\ \A i, j \in DOMAIN OneLayer(low.newArgs[low.argIndex + 1].type) :
                      (i < j /\ isGround(OneLayer(low.newArgs[low.argIndex + 1].type)[j].type))
                          => isGround(OneLayer(low.newArgs[low.argIndex + 1].type)[i].type)) =>
                  RecordedPositions(low.newArgs[low.argIndex + 1],
                                    Added(low.tl.renames, low'.tl.renames, key),
                                    runLowering(low').m.ports)]_vars

\* The lowering of the port a : {z: {}, b} is finished: the port a_b is
\* the port 1 and the target recorded for it is the port 2.
C26_EmptySibling ==
    /\ input.scen = "portsym"
    /\ input.T = BZeroFirst
    /\ low.phase = "done"
    /\ low.m.ports[2].sym = "a_b"
    /\ low.tl.renames[<<"M", "a">>] = <<PortAnnoTarget(2)>>

(***************************************************************************)
(* The ports of an instance and of the module it instantiates.             *)
(***************************************************************************)
\* The task has called lowerModule and it returned.
HasLowered(t) == task[t].pc \in {"lock", "merge", "unlock", "done"}

\* The instance i of the module t has the ports of the module it refers to.
PortsAgree(t, i) ==
    InstancePorts(circuit.mods[t].ops[i])
      = PortList(circuit.mods[circuit.mods[t].ops[i].target].ports)

\* C27: once the module of an instance and the module the instance refers to
\* are both lowered, in whatever order, the names, directions and types of
\* the ports of the instance are those of the ports of the module (as they
\* were before either was lowered).
C27_InstancePorts ==
    input.scen = "circuit" =>
        \A t \in DOMAIN circuit.mods : \A i \in InstancesOf(circuit.mods[t]) :
            (\/ HasLowered(t) /\ HasLowered(circuit.mods[t].ops[i].target)
             \/ task[t].pc = "lower" /\ task[circuit.mods[t].ops[i].target].pc = "lower")
                => PortsAgree(t, i)

\* The pass has ended with both switches on: the instance of the public
\* module Child has the port a : {a: {x, y}, b: UInt<1>[2]} decomposed into
\* the four ground ports of Child.
C27_Witness ==
    /\ input.scen = "circuit" /\ input.name = "public" /\ input.T = BNested
    /\ input.preserveAggregate /\ input.preservePublicTypes
    /\ PassFinished
    /\ \E i \in InstancesOf(circuit.mods["Top"]) :
           /\ Len(circuit.mods["Top"].ops[i].ports) = 5
           /\ PortsAgree("Top", i)
           /\ circuit.mods["Top"].ops[i].ports[1].dir = "out"
           /\ circuit.mods["Top"].ops[i].ports[2].dir = "in"

(***************************************************************************)
(* The inner symbols of a module.                                          *)
(***************************************************************************)
\* The declarations and ports of m that carry an inner symbol, each with
\* its symbol.
SymbolHolders(m) ==
    {[kind |-> "op", ref |-> i, sym |-> m.ops[i].sym] :
        i \in {j \in DOMAIN m.ops : m.ops[j].sym # ""}}
    \cup {[kind |-> "port", ref |-> p, sym |-> m.ports[p].sym] :
            p \in {q \in DOMAIN m.ports : m.ports[q].sym # ""}}

\* The inner symbols of m are pairwise distinct.
SymbolsDistinct(m) ==
    \A x, y \in SymbolHolders(m) : x.sym = y.sym => x = y

\* C28: when the inner symbols of the declarations and ports of a module
\* are pairwise distinct before the lowering, they are pairwise distinct
\* after it.
C28_SymbolsStayDistinct ==
    (low.phase = "done" /\ SymbolsDistinct(input.m)) => SymbolsDistinct(low.m)

\* No symbol of m is the symbol of another declaration or port of m with
\* field suffixes appended.
NoDerivedClash(m) ==
    \A d, e \in SymbolCarriers(m) : d.sym # e.sym => e.sym \notin DerivedSymbols(d)

\* What holds: the symbols stay distinct when no symbol of the module has
\* the form of a symbol derived from another.
C28_UnlessDerivedForm ==
    (low.phase = "done" /\ SymbolsDistinct(input.m) /\ NoDerivedClash(input.m))
        => SymbolsDistinct(low.m)

\* After the lowering of wire w @w : {a, b} and wire g @w_a, two wires
\* carry the symbol w_a.
C28_Clash ==
    /\ input.scen = "symbols"
    /\ input.T = BAB
    /\ low.phase = "done"
    /\ SymbolsDistinct(input.m)
    /\ Cardinality({x \in SymbolHolders(low.m) : x.sym = "w_a"}) = 2

(***************************************************************************)
(* A cast to bits and back.                                                *)
(***************************************************************************)
RECURSIVE BitsOf(_, _)
\* The bits of the value v, the least significant first, each as <<name of
\* a wire, number of the bit>>: a concatenation has its second operand in
\* the low bits, bits(hi, lo) takes the bits lo..hi, and a cast between
\* ground types keeps the bits.
BitsOf(m, v) ==
    LET op == m.ops[v[1]]
    IN  CASE op.kind = "wire" /\ isGround(op.types[1]) ->
               [i \in 1..getBitWidth(op.types[1]) |-> <<op.name, i - 1>>]
          [] op.kind = "cat" -> BitsOf(m, op.operands[2]) \o BitsOf(m, op.operands[1])
          [] op.kind = "bits" -> SubSeq(BitsOf(m, op.operands[1]), op.idx + 1, op.hi + 1)
          [] op.kind \in {"asUInt", "asSInt", "bitcast"} /\ isGround(op.types[1]) ->
               BitsOf(m, op.operands[1])
          [] OTHER -> << <<"?", v[1]>> >>

RECURSIVE LowersToLeaves(_, _)
\* Every aggregate on the way to a ground leaf of t decomposes.
LowersToLeaves(t, preserveAggregate) ==
    \/ isGround(t)
    \/ Leaves(t) = <<>>
    \/ /\ Decomposes(t, preserveAggregate)
       /\ \A i \in 1..getNumElements(t) :
              LowersToLeaves(getElementType(t, i - 1), preserveAggregate)

\* The wire named y + suffix is driven by the bits of the wire named
\* x + suffix.
LeafKeepsBits(m, suffix) ==
    \E c \in ConnectOps(m) : \E x, y \in DOMAIN m.ops :
        /\ m.ops[x].kind = "wire" /\ m.ops[x].name = "x" \o suffix
        /\ m.ops[y].kind = "wire" /\ m.ops[y].name = "y" \o suffix
        /\ m.ops[c].operands[1] = Val(y)
        /\ BitsOf(m, m.ops[c].operands[2]) = BitsOf(m, Val(x))

\* C29: after the lowering of a cast of x : T to a UInt and of the cast of
\* that UInt back to T, every ground leaf of the result is the bits of the
\* same leaf of x: the flattening puts each field where the slicing takes
\* it from.
C29_RoundTrip ==
    (/\ input.scen = "roundtrip"
     /\ low.phase = "done"
     /\ LowersToLeaves(input.T, low.tl.preserveAggregate))
        => \A i \in DOMAIN Leaves(input.T) : LeafKeepsBits(low.m, Leaves(input.T)[i].suffix)

\* The cast of {a: {x, y}, b: UInt<2>} and back is lowered: y_b is driven by
\* the bits 3..2 of the concatenation of x_b with the concatenation of x_a_y
\* with x_a_x.
C29_Witness ==
    /\ input.scen = "roundtrip"
    /\ input.T = BMixed
    /\ low.phase = "done"
    /\ LeafKeepsBits(low.m, "_b")
    /\ \E b, c \in DOMAIN low.m.ops :
           /\ low.m.ops[b].kind = "bits" /\ low.m.ops[b].idx = 2 /\ low.m.ops[b].hi = 3
           /\ low.m.ops[b].operands = <<Val(c)>>
           /\ low.m.ops[c].kind = "cat"
           /\ Len(BitsOf(low.m, Val(c))) = 4
           /\ \E y \in DOMAIN low.m.ops :
                  /\ low.m.ops[y].name = "y_b"
                  /\ \E k \in ConnectOps(low.m) :
                         /\ low.m.ops[k].operands[1] = Val(y)
                         /\ BitsOf(low.m, low.m.ops[k].operands[2])
                              = BitsOf(low.m, Val(b))

(***************************************************************************)
(* The shared rename map after the parallel phase.                         *)
(***************************************************************************)
\* The local rename map of the module t: what tl.lowerModule records for
\* the module as the circuit holds it before the pass.
LocalRenames(t) ==
    lowerModule(input.c.mods[t], input.preserveAggregate, input.preservePublicTypes,
                input.asserts, ModuleTable(input.c)).tl.renames

\* The modules whose tasks have inserted their pairs.
Inserted == {t \in DOMAIN task : task[t].pc \in {"unlock", "done"}}

\* The shared map is the union of the local maps of the modules of ts.
UnionOfLocal(ts) ==
    /\ DOMAIN innerRefRenames = UNION {DOMAIN LocalRenames(t) : t \in ts}
    /\ \A t \in ts : \A key \in DOMAIN LocalRenames(t) :
           innerRefRenames[key] = LocalRenames(t)[key]

\* A key names the module that recorded it, so the keys of two modules
\* differ.
KeysOfOwnModule ==
    \A t \in DOMAIN task :
        /\ \A key \in DOMAIN task[t].renames : key[1] = t
        /\ \A u \in DOMAIN task \ {t} :
               DOMAIN task[t].renames \cap DOMAIN task[u].renames = {}

\* An insertion leaves every pair that was there and adds every pair of
\* the inserting module.
MergeKeepsAll ==
    \A t \in DOMAIN task :
        (task[t].pc = "merge" /\ task'[t].pc = "unlock") =>
            /\ \A key \in DOMAIN innerRefRenames :
                   key \in DOMAIN innerRefRenames'
                   /\ innerRefRenames'[key] = innerRefRenames[key]
            /\ \A key \in DOMAIN task[t].renames :
                   key \notin DOMAIN innerRefRenames
                   /\ innerRefRenames'[key] = task[t].renames[key]

\* C30: whatever the order in which the tasks finish and insert, the shared
\* rename map holds exactly the local maps of the modules that have
\* inserted, so after the parallel phase it is the union of all local maps;
\* the keys of different modules differ, and no insertion loses or
\* overwrites a pair.
C30_SharedMapIsUnion ==
    /\ [](UnionOfLocal(Inserted) /\ KeysOfOwnModule)
    /\ [][MergeKeepsAll]_vars

\* Every task has returned, two modules have recorded renames, and the
\* shared map holds the pairs of both.
C30_Witness ==
    /\ parallelForEachReturned(task)
    /\ upd.phase = "idle"
    /\ \E t \in DOMAIN task : \E u \in DOMAIN task \ {t} :
           /\ task[t].renames # <<>> /\ task[u].renames # <<>>
           /\ \E k \in DOMAIN innerRefRenames : k[1] = t
           /\ \E k \in DOMAIN innerRefRenames : k[1] = u
    /\ UnionOfLocal(DOMAIN task)

\* The module that inserts second finds the pairs of the first in the map.
C30_SecondInsertion ==
    \E t \in DOMAIN task : \E u \in DOMAIN task \ {t} :
        /\ task[t].pc = "merge" /\ task[t].renames # <<>>
        /\ task[u].pc = "done" /\ task[u].renames # <<>>
        /\ DOMAIN innerRefRenames = DOMAIN task[u].renames

====
